---------------------------- MODULE Spec2Model ----------------------------
(***************************************************************************)
(* A model of the DCF stock screener: the streaming screening pipeline     *)
(* (batch_screener.py, data_fetcher_roic.py), the checked-ticker cache     *)
(* (db_storage.py) and the filter fingerprint (_get_filter_hash).          *)
(*                                                                         *)
(* Three specifications share the module:                                  *)
(*   Spec       one run of BatchScreener.screen_stocks_streaming           *)
(*   SpecCache  concurrent runs writing and reading the checked_tickers    *)
(*              table through db_storage                                   *)
(*   SpecHash   two processes fingerprinting the same filter dict          *)
(*                                                                         *)
(* Units: market capitalisation is in millions of dollars, a gross margin  *)
(* is in whole percent, time is in days.                                   *)
(***************************************************************************)
EXTENDS Integers, Sequences, FiniteSets, TLC

VARIABLES
    \* ---- one screening run (Spec) ----
    data_source,      \* BatchScreener.data_source: "roic" | "yahoo"
    filters,          \* the filter dict given to screen_stocks_streaming
    exclude_tickers,  \* the exclude_tickers set
    max_stocks,       \* max_stocks; 0 stands for None
    pc,               \* position of the generator
    universe,         \* what get_stock_universe returned (before exclusion)
    universe_source,  \* which path produced it
    provider_failed,  \* the ROIC universe query raised or returned nothing
    stocks,           \* the list the loop runs over (after exclusion)
    pre_filtered,     \* local pre_filtered
    need_enrichment,  \* local need_enrichment
    need_financial,   \* local need_financial
    i,                \* 1-based loop index
    matched_count,    \* local matched_count
    events,           \* every call and callback of the run, in order
    yielded,          \* the stocks yielded so far
    final_message,    \* message of the closing progress callback, "" if none
    \* ---- the checked-ticker cache (SpecCache) ----
    use_supabase,     \* db_storage.USE_SUPABASE
    checked_tickers,  \* the checked_tickers table: (ticker, filter_hash) -> rows
    clock,            \* datetime.now(), in days
    run_filters,      \* per screening run: its filter dict
    run_pc,           \* per screening run: "idle" | "saving"
    pending,          \* per run: the row its upsert request carries
    called,           \* keys save_checked_ticker has been called and returned for
    written,          \* keys for which an upsert has succeeded
    last_save,        \* the last save_checked_ticker call that returned
    saves,            \* number of save_checked_ticker calls made
    \* ---- the filter fingerprint (SpecHash) ----
    hash_dict,        \* per process: the filter dict, in insertion order
    hash_seed,        \* per process: the interpreter's hash seed
    hash_out,         \* per process: the fingerprint, once computed
    \* ---- the DCF engine (SpecDcf, SpecDcfFn) ----
    dcf_data,         \* the financial_data dict given to run_full_dcf
    dcf_params,       \* the params dict, merged over the defaults
    dcf_result,       \* what run_full_dcf did, once it has run
    historical_fcf,   \* the series given to a function of the calculator
    fn_call,          \* the last call of a function of the calculator
    \* ---- the analysis store (SpecStore) ----
    analysis_history, \* the rows of the analysis_history table, oldest first
    unique_ticker,    \* whether the table declares ticker unique
    save_pc,          \* per save_analysis caller: "idle" | "deleting" | "inserting"
    save_arg,         \* per caller: the ticker and the result being saved
    completed,        \* the results whose save_analysis has succeeded
    store_saves,      \* number of save_analysis calls made
    \* ---- the batch worker (SpecWorker) ----
    worker_pc,        \* "idle" | "start" | "polling" | "dispatch" | "screening" | "exited"
    worker_once,      \* run_worker's argument once
    batch_jobs,       \* the batch_jobs table: per job id, its row
    job_queue,        \* run_worker's list jobs, the part not yet processed
    job_cur,          \* the job process_job is running on
    job_i,            \* 1-based index of the screening loop of the job
    job_local,        \* process_job's locals recently_checked and processed
    job_trace,        \* per job id: statuses written, returned value, callbacks
    \* ---- server-side and client-side filtering (SpecFilter) ----
    filter_check      \* a payload, filter lists and the tickers each side selects

screenVars == <<data_source, filters, exclude_tickers, max_stocks, pc, universe,
                universe_source, provider_failed, stocks, pre_filtered,
                need_enrichment, need_financial, i, matched_count, events,
                yielded, final_message>>
cacheVars == <<use_supabase, checked_tickers, clock, run_filters, run_pc,
               pending, called, written, last_save, saves>>
hashVars == <<hash_dict, hash_seed, hash_out>>
dcfVars == <<dcf_data, dcf_params, dcf_result, historical_fcf, fn_call>>
storeVars == <<analysis_history, unique_ticker, save_pc, save_arg, completed,
               store_saves>>
workerVars == <<worker_pc, worker_once, batch_jobs, job_queue, job_cur, job_i,
                job_local, job_trace>>
filterVars == <<filter_check>>
vars == <<screenVars, cacheVars, hashVars, dcfVars, storeVars, workerVars,
          filterVars>>

(***************************************************************************)
(* Bounds of the model.                                                    *)
(***************************************************************************)
\* Number of tickers in every universe list the providers return.
MaxUniverse == 3
\* max_stocks ranges over 0 (None) .. MaxMatches.
MaxMatches == 2

NA == "N/A"
Unknown == "Unknown"
\* A stock dict without the 'gross_margin' key.
NoGrossMargin == -1

(***************************************************************************)
(* Ticker data.  Tickers are compared alphabetically by their rank.        *)
(***************************************************************************)
TickerOrder == <<"AAPL", "JPM", "MSFT", "PG", "XOM">>

TickerRank(t) == CHOOSE k \in 1..Len(TickerOrder) : TickerOrder[k] = t

get_market_cap_universe(market_cap) ==
    IF market_cap = 0 THEN Unknown
    ELSE IF market_cap >= 200000 THEN "Mega Cap"
    ELSE IF market_cap >= 10000 THEN "Large Cap"
    ELSE IF market_cap >= 2000 THEN "Mid Cap"
    ELSE IF market_cap >= 300 THEN "Small Cap"
    ELSE IF market_cap >= 50 THEN "Micro Cap"
    ELSE "Nano Cap"

\* The substring tests of normalize_exchange on the exchange names that occur.
normalize_exchange(exch) ==
    IF exch = "" THEN NA
    ELSE IF exch \in {"NASDAQ", "NasdaqGS", "NMS", "NGM"} THEN "NASDAQ"
    ELSE IF exch \in {"NYSE", "NYQ"} THEN "NYSE"
    ELSE IF exch = "AMEX" THEN "AMEX"
    ELSE exch

normalize_sector(sector) ==
    IF sector = "" \/ sector = NA THEN NA
    ELSE IF sector = "Information Technology" THEN "Technology"
    ELSE IF sector = "Financials" THEN "Financial Services"
    ELSE sector

Stock(t, sector, exch, cap, tier) ==
    [ticker |-> t, sector |-> sector, exchange |-> exch, market_cap |-> cap,
     market_cap_universe |-> tier, gross_margin |-> NoGrossMargin]

\* An excerpt of LARGE_CAP_STOCKS, in the order of the source.
LARGE_CAP_STOCKS ==
    << <<"AAPL", "Technology", "NASDAQ">>,
       <<"MSFT", "Technology", "NASDAQ">>,
       <<"JPM", "Financial Services", "NYSE">>,
       <<"XOM", "Energy", "NYSE">>,
       <<"PG", "Consumer Defensive", "NYSE">> >>

\* _get_yahoo_universe: the built-in list; the exchange argument is not used.
_get_yahoo_universe ==
    [k \in 1..MaxUniverse |->
        Stock(LARGE_CAP_STOCKS[k][1], LARGE_CAP_STOCKS[k][2],
              LARGE_CAP_STOCKS[k][3], 50000, "Large Cap")]

\* What _fetch_nasdaq_tickers parses: symbol and market code only.
NasdaqList ==
    [k \in 1..MaxUniverse |->
        Stock(LARGE_CAP_STOCKS[k][1], NA, LARGE_CAP_STOCKS[k][3], 0, Unknown)]

\* A provider response: ok is FALSE when the call raised.
Response(ok, data) == [ok |-> ok, data |-> data]

NasdaqResponses == {Response(FALSE, << >>), Response(TRUE, NasdaqList)}

\* Payloads of the ROIC /tickers endpoint: raw items, not sorted.
RoicItem(sym, sector, exch, cap) ==
    [symbol |-> sym, sector |-> sector, exchange |-> exch, marketCap |-> cap]

RoicFull ==
    [k \in 1..MaxUniverse |->
        LET s == LARGE_CAP_STOCKS[MaxUniverse + 1 - k]
        IN  RoicItem(s[1], s[2], IF s[3] = "NASDAQ" THEN "NMS" ELSE "NYQ",
                     IF k = 1 THEN 5000 ELSE 50000)]

\* The same tickers with metadata missing: no market cap for the first
\* ticker of the alphabet, no sector or no exchange for others.
RoicPartial ==
    [k \in 1..MaxUniverse |->
        LET s == LARGE_CAP_STOCKS[MaxUniverse + 1 - k]
        IN  RoicItem(s[1],
                     IF s[1] = "MSFT" THEN "" ELSE s[2],
                     IF s[1] = "JPM" THEN "" ELSE s[3],
                     IF s[1] = "AAPL" THEN 0 ELSE 50000)]

RoicResponses ==
    {Response(FALSE, << >>), Response(TRUE, << >>), Response(TRUE, RoicFull),
     Response(TRUE, RoicPartial)}

(***************************************************************************)
(* Filters.  A multiselect filter is the set of its selected options.      *)
(***************************************************************************)
Filters(sector, exch, tiers, fin) ==
    [sector |-> sector, exchange |-> exch, market_cap_universe |-> tiers,
     positive_fcf_last_year |-> fin[1], positive_fcf_years_3 |-> fin[2],
     positive_fcf_years_5 |-> fin[3], positive_fcf_years_10 |-> fin[4],
     revenue_growth_years_5 |-> fin[5], min_gross_margin |-> fin[6]]

\* No financial filter, then each financial filter active alone.
FinancialCombos ==
    { <<"Any", 0, 0, 0, 0, 0>>, <<"Yes", 0, 0, 0, 0, 0>>, <<"No", 0, 0, 0, 0, 0>>,
      <<"Any", 2, 0, 0, 0, 0>>, <<"Any", 0, 3, 0, 0, 0>>, <<"Any", 0, 0, 2, 0, 0>>,
      <<"Any", 0, 0, 0, 1, 0>>, <<"Any", 0, 0, 0, 0, 40>> }

FilterSets ==
    { Filters(s, e, t, f) : s \in {{}, {"Technology"}}, e \in {{}, {"NASDAQ"}},
                            t \in {{}, {"Large Cap"}}, f \in FinancialCombos }

(***************************************************************************)
(* The universe.                                                           *)
(***************************************************************************)
RECURSIVE InsertByTicker(_, _)
InsertByTicker(sorted, s) ==
    IF sorted = << >> THEN <<s>>
    ELSE IF TickerRank(s.ticker) < TickerRank(Head(sorted).ticker)
         THEN <<s>> \o sorted
         ELSE <<Head(sorted)>> \o InsertByTicker(Tail(sorted), s)

\* results.sort(key=lambda x: x['ticker']): a stable sort.
RECURSIVE SortByTicker(_)
SortByTicker(seq) ==
    IF seq = << >> THEN << >>
    ELSE InsertByTicker(SortByTicker(SubSeq(seq, 1, Len(seq) - 1)), seq[Len(seq)])

\* Mutant of RoicItemPasses: an item whose attribute is unknown passes.
RoicItemPassesUnknown(item, sectors, exchanges, market_cap_universes) ==
    LET raw_sector == IF item.sector = "" THEN NA ELSE item.sector
        exchange == normalize_exchange(item.exchange)
        tier == get_market_cap_universe(item.marketCap)
    IN  /\ item.symbol # ""
        /\ sectors # {} => (raw_sector = NA \/ raw_sector \in sectors)
        /\ exchanges # {} => (exchange = NA \/ exchange \in exchanges)
        /\ market_cap_universes # {} =>
              (tier = Unknown \/ tier \in market_cap_universes)

\* The filter test get_filtered_tickers applies to one raw item.
RoicItemPasses(item, sectors, exchanges, market_cap_universes) ==
    LET raw_sector == IF item.sector = "" THEN NA ELSE item.sector
        exchange == normalize_exchange(item.exchange)
        tier == get_market_cap_universe(item.marketCap)
    IN  /\ item.symbol # ""
        /\ sectors # {} => (raw_sector # NA /\ raw_sector \in sectors)
        /\ exchanges # {} => (exchange # NA /\ exchange \in exchanges)
        /\ market_cap_universes # {} =>
              (tier # Unknown /\ tier \in market_cap_universes)

RoicResult(item) ==
    [Stock(item.symbol, IF item.sector = "" THEN NA ELSE item.sector,
           normalize_exchange(item.exchange), item.marketCap,
           get_market_cap_universe(item.marketCap))
     EXCEPT !.gross_margin = NoGrossMargin]

\* RoicDataFetcher.get_filtered_tickers on the payload `data`.
get_filtered_tickers(data, sectors, exchanges, market_cap_universes) ==
    LET kept == SelectSeq(data, LAMBDA item :
                    RoicItemPasses(item, sectors, exchanges, market_cap_universes))
    IN  SortByTicker([k \in 1..Len(kept) |-> RoicResult(kept[k])])

\* The client-side exchange filter of the NASDAQ fallback.
NasdaqFallback(list, exchanges) ==
    IF exchanges # {} THEN SelectSeq(list, LAMBDA s : s.exchange \in exchanges)
    ELSE list

\* Mutant of _get_roic_universe: no fallback when the ROIC query gives nothing.
get_roic_universe_no_fallback(f, roic, nasdaq) ==
    [source |-> "roic_filtered",
     stocks |-> IF roic.ok
                THEN get_filtered_tickers(roic.data, f.sector, f.exchange,
                                          f.market_cap_universe)
                ELSE << >>]

\* _get_roic_universe: the list and the path that produced it.
_get_roic_universe(f, roic, nasdaq) ==
    LET server == IF roic.ok
                  THEN get_filtered_tickers(roic.data, f.sector, f.exchange,
                                            f.market_cap_universe)
                  ELSE << >>
    IN  IF server # << >> THEN [source |-> "roic_filtered", stocks |-> server]
        ELSE IF nasdaq.ok /\ nasdaq.data # << >>
        THEN [source |-> "nasdaq", stocks |-> NasdaqFallback(nasdaq.data, f.exchange)]
        ELSE [source |-> "static", stocks |-> _get_yahoo_universe]

\* get_stock_universe
get_stock_universe(source, f, roic, nasdaq) ==
    IF source = "roic" THEN _get_roic_universe(f, roic, nasdaq)
    ELSE [source |-> "static", stocks |-> _get_yahoo_universe]

\* Mutant of ExcludeTickers: the list left is run over from its end.
ExcludeReversed(list, exclude) ==
    LET kept == SelectSeq(list, LAMBDA s : s.ticker \notin exclude)
    IN  [k \in DOMAIN kept |-> kept[Len(kept) + 1 - k]]

\* Mutant of ExcludeTickers: the exclusion is not applied.
ExcludeNothing(list, exclude) == list

\* stocks = [s for s in stocks if s['ticker'] not in exclude_tickers]
ExcludeTickers(list, exclude) ==
    SelectSeq(list, LAMBDA s : s.ticker \notin exclude)

(***************************************************************************)
(* Per-ticker provider calls.                                              *)
(***************************************************************************)
\* yfinance's info dict: sector, exchange, marketCap and grossMargins; "" and
\* 0 stand for an absent key.
Info(sector, exch, cap, margin) ==
    [sector |-> sector, exchange |-> exch, marketCap |-> cap,
     grossMargins |-> margin]

EnrichOutcomes ==
    {Response(FALSE, Info("", "", 0, 0)),
     Response(TRUE, Info("Information Technology", "NMS", 50000, 55)),
     Response(TRUE, Info("Energy", "NYQ", 500, 20)),
     Response(TRUE, Info("", "", 0, 0))}

\* enrich_stock_info: the stock dict after the call.
enrich_stock_info(stock, info) ==
    IF info.ok
    THEN [stock EXCEPT
            !.sector = IF stock.sector = NA THEN normalize_sector(info.data.sector)
                       ELSE stock.sector,
            !.exchange = IF stock.exchange = NA
                         THEN normalize_exchange(info.data.exchange)
                         ELSE stock.exchange,
            !.market_cap = info.data.marketCap,
            !.market_cap_universe = get_market_cap_universe(info.data.marketCap),
            !.gross_margin = info.data.grossMargins]
    ELSE [stock EXCEPT
            !.gross_margin = IF stock.gross_margin = NoGrossMargin THEN 0
                             ELSE stock.gross_margin]

\* One statement period: year 0 stands for a missing date.
Period(year, value) == [year |-> year, value |-> value]

Statements(cash_flows, income) ==
    [cash_flows |-> cash_flows, income_statements |-> income]

MetricsOutcomes ==
    {Response(FALSE, Statements(<< >>, << >>)),
     Response(TRUE, Statements(<< >>, << >>)),
     Response(TRUE, Statements(
        <<Period(2022, 3), Period(2023, 5), Period(2021, 0 - 1), Period(0, 9)>>,
        <<Period(2023, 10), Period(2022, 8), Period(2021, 9)>>)),
     Response(TRUE, Statements(
        <<Period(2023, 0 - 4), Period(2022, 2), Period(2021, 1), Period(2020, 6)>>,
        <<Period(2023, 7), Period(2022, 8)>>))}

RECURSIVE InsertByYear(_, _)
InsertByYear(sorted, p) ==
    IF sorted = << >> THEN <<p>>
    ELSE IF p.year > Head(sorted).year THEN <<p>> \o sorted
         ELSE <<Head(sorted)>> \o InsertByYear(Tail(sorted), p)

\* history.sort(key=lambda x: x['year'], reverse=True), dated periods only.
RECURSIVE SortNewestFirst(_)
SortNewestFirst(seq) ==
    IF seq = << >> THEN << >>
    ELSE LET rest == SortNewestFirst(SubSeq(seq, 1, Len(seq) - 1))
             last == seq[Len(seq)]
         IN  IF last.year = 0 THEN rest ELSE InsertByYear(rest, last)

\* sum(1 for f in fcf_history[:n] if f['fcf'] > 0)
PositiveCount(history, n) ==
    Cardinality({k \in 1..Len(history) : k <= n /\ history[k].value > 0})

\* get_financial_metrics
get_financial_metrics(resp) ==
    IF resp.ok
    THEN LET fcf_history == SortNewestFirst(resp.data.cash_flows)
             revenue_history == SortNewestFirst(resp.data.income_statements)
         IN  [positive_fcf_last_year |->
                 fcf_history # << >> /\ fcf_history[1].value > 0,
              positive_fcf_years_3 |-> PositiveCount(fcf_history, 3),
              positive_fcf_years_5 |-> PositiveCount(fcf_history, 5),
              positive_fcf_years_10 |-> PositiveCount(fcf_history, 10),
              revenue_growth_years_5 |->
                 Cardinality({k \in 1..(Len(revenue_history) - 1) :
                     k <= 5 /\ revenue_history[k].value > revenue_history[k + 1].value}),
              full_data |-> TRUE]
    ELSE [positive_fcf_last_year |-> FALSE, positive_fcf_years_3 |-> 0,
          positive_fcf_years_5 |-> 0, positive_fcf_years_10 |-> 0,
          revenue_growth_years_5 |-> 0, full_data |-> FALSE]

(***************************************************************************)
(* The filter predicates.                                                  *)
(***************************************************************************)
\* passes_basic_filters
passes_basic_filters(stock, f) ==
    LET stock_exchange == IF stock.exchange \in {"", NA} THEN stock.exchange
                          ELSE normalize_exchange(stock.exchange)
    IN  /\ ~(f.sector # {} /\ stock.sector # NA /\ stock.sector \notin f.sector)
        /\ ~(f.exchange # {} /\ stock_exchange # NA
                /\ stock_exchange \notin f.exchange)
        /\ ~(f.market_cap_universe # {} /\ stock.market_cap_universe # Unknown
                /\ stock.market_cap_universe \notin f.market_cap_universe)

\* stock.get('gross_margin', 0)
GrossMargin(stock) ==
    IF stock.gross_margin = NoGrossMargin THEN 0 ELSE stock.gross_margin

\* passes_financial_filters
passes_financial_filters(stock, metrics, f) ==
    /\ f.positive_fcf_last_year = "Yes" => metrics.positive_fcf_last_year
    /\ f.positive_fcf_last_year = "No" => ~metrics.positive_fcf_last_year
    /\ f.positive_fcf_years_3 > 0 =>
          metrics.positive_fcf_years_3 >= f.positive_fcf_years_3
    /\ f.positive_fcf_years_5 > 0 =>
          metrics.positive_fcf_years_5 >= f.positive_fcf_years_5
    /\ f.positive_fcf_years_10 > 0 =>
          metrics.positive_fcf_years_10 >= f.positive_fcf_years_10
    /\ f.revenue_growth_years_5 > 0 =>
          metrics.revenue_growth_years_5 >= f.revenue_growth_years_5
    /\ f.min_gross_margin > 0 => GrossMargin(stock) >= f.min_gross_margin

\* has_financial_filters
has_financial_filters(f) ==
    \/ f.positive_fcf_last_year \notin {"Any", ""}
    \/ f.positive_fcf_years_3 > 0
    \/ f.positive_fcf_years_5 > 0
    \/ f.positive_fcf_years_10 > 0
    \/ f.revenue_growth_years_5 > 0
    \/ f.min_gross_margin > 0

\* needs_enrichment
needs_enrichment(f, pre) ==
    IF pre THEN f.min_gross_margin > 0
    ELSE \/ f.sector # {}
         \/ f.market_cap_universe # {}
         \/ f.min_gross_margin > 0

\* pre_filtered, as screen_stocks_streaming computes it from the list.
PreFiltered(source, list) ==
    /\ source = "roic"
    /\ Len(list) > 0
    /\ list[1].market_cap_universe # Unknown

\* The re-check of the sector and market-cap filters after enrichment.
RecheckAfterEnrichment(stock, f) ==
    /\ ~(f.sector # {} /\ stock.sector # NA /\ stock.sector \notin f.sector)
    /\ ~(f.market_cap_universe # {}
            /\ stock.market_cap_universe \notin f.market_cap_universe)

\* Mutant of MaxReached: the break comes one match late.
MaxReachedLate(limit, count) == limit # 0 /\ count > limit

\* if max_stocks and matched_count >= max_stocks: break
MaxReached(limit, count) == limit # 0 /\ count >= limit

(***************************************************************************)
(* One iteration of the loop of screen_stocks_streaming.                   *)
(***************************************************************************)
\* An entry of the run's log.  flag is: the verdict of passes_basic_filters
\* ("basic"), whether the provider call succeeded ("enrich", "fetch"), the
\* matched argument ("checked"), TRUE otherwise.  exchange is the stock's
\* exchange when the entry was made.
Event(ev, stock, flag) ==
    [ev |-> ev, ticker |-> stock.ticker, flag |-> flag,
     exchange |-> stock.exchange]

\* Mutant of CheckedEvents: only matches are reported.
CheckedEventsMatchesOnly(stock, required_slow_check, passed_all) ==
    IF required_slow_check /\ passed_all
    THEN <<[ev |-> "checked", ticker |-> stock.ticker, flag |-> TRUE,
            exchange |-> stock.exchange]>>
    ELSE << >>

\* checked_callback(stock['ticker'], passed_all), if slow operations were
\* required.
CheckedEvents(stock, required_slow_check, passed_all) ==
    IF required_slow_check THEN <<Event("checked", stock, passed_all)>>
    ELSE << >>

\* match_callback(stock); yield stock
EmitEvents(stock) ==
    <<Event("match", stock, TRUE), Event("yield", stock, TRUE)>>

\* Mutant of IterationTail: the checked callback comes after the yield.
IterationTailYieldFirst(stock, required_slow_check, passed_all) ==
    (IF passed_all THEN EmitEvents(stock) ELSE << >>)
        \o CheckedEvents(stock, required_slow_check, passed_all)

\* The end of an iteration: checked callback, then match callback and yield.
IterationTail(stock, required_slow_check, passed_all) ==
    CheckedEvents(stock, required_slow_check, passed_all)
        \o (IF passed_all THEN EmitEvents(stock) ELSE << >>)

\* The body of the loop for one stock, given what the providers answer:
\* the log entries it makes, its verdict and the stock dict at its end.
ProcessStock(stock0, info, resp) ==
    LET progress == <<Event("progress", stock0, TRUE)>>
        passes_basic == pre_filtered \/ passes_basic_filters(stock0, filters)
        basic == IF pre_filtered THEN << >>
                 ELSE <<Event("basic", stock0, passes_basic)>>
    IN  IF ~passes_basic
        THEN [events |-> progress \o basic, passed_all |-> FALSE, stock |-> stock0]
        ELSE
        LET required_slow_check == need_enrichment \/ need_financial
            stock == IF need_enrichment THEN enrich_stock_info(stock0, info)
                     ELSE stock0
            enrich == IF need_enrichment THEN <<Event("enrich", stock0, info.ok)>>
                      ELSE << >>
            passed1 == IF need_enrichment /\ ~pre_filtered
                       THEN RecheckAfterEnrichment(stock, filters) ELSE TRUE
            fetched == passed1 /\ need_financial
            fetch == IF fetched THEN <<Event("fetch", stock, resp.ok)>> ELSE << >>
            passed_all ==
                passed1 /\ (fetched =>
                    passes_financial_filters(stock, get_financial_metrics(resp),
                                             filters))
        IN  [events |-> progress \o basic \o enrich \o fetch
                          \o IterationTail(stock, required_slow_check, passed_all),
             passed_all |-> passed_all, stock |-> stock]

(***************************************************************************)
(* The actions of a screening run.                                         *)
(***************************************************************************)
\* The first next() of the generator, up to the loop: fetch the universe,
\* drop the excluded tickers, return at once when nothing is left.
FetchUniverse ==
    /\ pc = "start"
    /\ \E roic \in RoicResponses, nasdaq \in NasdaqResponses :
         LET got == get_stock_universe(data_source, filters, roic, nasdaq)
             list == ExcludeTickers(got.stocks, exclude_tickers)
             pre == PreFiltered(data_source, list)
         IN  /\ universe' = got.stocks
             /\ universe_source' = got.source
             /\ provider_failed' =
                    (data_source = "roic" /\ (~roic.ok \/ roic.data = << >>))
             /\ stocks' = list
             /\ pre_filtered' = pre
             /\ need_enrichment' = needs_enrichment(filters, pre)
             /\ need_financial' = has_financial_filters(filters)
             /\ IF list = << >>
                THEN pc' = "done" /\ final_message' = "No stocks found in universe"
                ELSE pc' = "loop" /\ final_message' = ""
    /\ i' = 1
    /\ UNCHANGED <<data_source, filters, exclude_tickers, max_stocks,
                   matched_count, events, yielded>>
    /\ UNCHANGED <<cacheVars, hashVars, dcfVars, storeVars,
                   workerVars, filterVars>>

\* One iteration of the loop, which ends at `continue` or at `yield`.
ScreenTicker ==
    /\ pc = "loop"
    /\ i <= Len(stocks)
    /\ ~MaxReached(max_stocks, matched_count)
    /\ \E info \in EnrichOutcomes, resp \in MetricsOutcomes :
         LET r == ProcessStock(stocks[i], info, resp)
         IN  /\ events' = events \o r.events
             /\ IF r.passed_all
                THEN /\ matched_count' = matched_count + 1
                     /\ yielded' = Append(yielded, r.stock)
                     /\ pc' = "yielded"
                     /\ i' = i
                ELSE /\ i' = i + 1
                     /\ UNCHANGED <<matched_count, yielded, pc>>
    /\ UNCHANGED <<data_source, filters, exclude_tickers, max_stocks, universe,
                   universe_source, provider_failed, stocks, pre_filtered,
                   need_enrichment, need_financial, final_message>>
    /\ UNCHANGED <<cacheVars, hashVars, dcfVars, storeVars,
                   workerVars, filterVars>>

\* The consumer asks for the next stock: the generator resumes after yield.
Resume ==
    /\ pc = "yielded"
    /\ pc' = "loop"
    /\ i' = i + 1
    /\ UNCHANGED <<data_source, filters, exclude_tickers, max_stocks, universe,
                   universe_source, provider_failed, stocks, pre_filtered,
                   need_enrichment, need_financial, matched_count, events,
                   yielded, final_message>>
    /\ UNCHANGED <<cacheVars, hashVars, dcfVars, storeVars,
                   workerVars, filterVars>>

\* The consumer stops consuming: the generator is closed at its yield.
Cancel ==
    /\ pc = "yielded"
    /\ pc' = "cancelled"
    /\ UNCHANGED <<data_source, filters, exclude_tickers, max_stocks, universe,
                   universe_source, provider_failed, stocks, pre_filtered,
                   need_enrichment, need_financial, i, matched_count, events,
                   yielded, final_message>>
    /\ UNCHANGED <<cacheVars, hashVars, dcfVars, storeVars,
                   workerVars, filterVars>>

\* The loop ends, by exhaustion or by the max_stocks break, and the closing
\* progress callback is made.
Finish ==
    /\ pc = "loop"
    /\ i > Len(stocks) \/ MaxReached(max_stocks, matched_count)
    /\ pc' = "done"
    /\ final_message' = "Screening complete"
    /\ UNCHANGED <<data_source, filters, exclude_tickers, max_stocks, universe,
                   universe_source, provider_failed, stocks, pre_filtered,
                   need_enrichment, need_financial, i, matched_count, events,
                   yielded>>
    /\ UNCHANGED <<cacheVars, hashVars, dcfVars, storeVars,
                   workerVars, filterVars>>

(***************************************************************************)
(* The screening run as a specification.                                   *)
(***************************************************************************)
UniverseTickers == {LARGE_CAP_STOCKS[k][1] : k \in 1..MaxUniverse}

\* The exclude_tickers sets tried: none, one ticker, every ticker.
ExcludeSets == {{}, {"AAPL"}, UniverseTickers}

\* The variables of the other specifications, at rest.
CacheIdle ==
    /\ use_supabase = FALSE
    /\ checked_tickers = << >>
    /\ clock = 0
    /\ run_filters = << >>
    /\ run_pc = << >>
    /\ pending = << >>
    /\ called = {}
    /\ written = {}
    /\ last_save = << >>
    /\ saves = 0

HashIdle ==
    /\ hash_dict = << >>
    /\ hash_seed = << >>
    /\ hash_out = << >>

DcfIdle ==
    /\ dcf_data = << >>
    /\ dcf_params = << >>
    /\ dcf_result = << >>
    /\ historical_fcf = << >>
    /\ fn_call = << >>

StoreIdle ==
    /\ analysis_history = << >>
    /\ unique_ticker = FALSE
    /\ save_pc = << >>
    /\ save_arg = << >>
    /\ completed = {}
    /\ store_saves = 0

WorkerIdle ==
    /\ worker_pc = "idle"
    /\ worker_once = FALSE
    /\ batch_jobs = << >>
    /\ job_queue = << >>
    /\ job_cur = 0
    /\ job_i = 0
    /\ job_local = << >>
    /\ job_trace = << >>

FilterIdle == filter_check = << >>

ScreenIdle ==
    /\ data_source = "yahoo"
    /\ filters = << >>
    /\ exclude_tickers = {}
    /\ max_stocks = 0
    /\ pc = "idle"
    /\ universe = << >>
    /\ universe_source = ""
    /\ provider_failed = FALSE
    /\ stocks = << >>
    /\ pre_filtered = FALSE
    /\ need_enrichment = FALSE
    /\ need_financial = FALSE
    /\ i = 1
    /\ matched_count = 0
    /\ events = << >>
    /\ yielded = << >>
    /\ final_message = ""

\* A BatchScreener is constructed and screen_stocks_streaming is called.
Init ==
    /\ data_source \in {"roic", "yahoo"}
    /\ filters \in FilterSets
    /\ exclude_tickers \in ExcludeSets
    /\ max_stocks \in 0..MaxMatches
    /\ pc = "start"
    /\ universe = << >>
    /\ universe_source = ""
    /\ provider_failed = FALSE
    /\ stocks = << >>
    /\ pre_filtered = FALSE
    /\ need_enrichment = FALSE
    /\ need_financial = FALSE
    /\ i = 1
    /\ matched_count = 0
    /\ events = << >>
    /\ yielded = << >>
    /\ final_message = ""
    /\ CacheIdle
    /\ HashIdle
    /\ DcfIdle
    /\ StoreIdle
    /\ WorkerIdle
    /\ FilterIdle

Next ==
    \/ FetchUniverse
    \/ ScreenTicker
    \/ Resume
    \/ Cancel
    \/ Finish

Spec == Init /\ [][Next]_vars

(***************************************************************************)
(* Properties of a screening run (checked under Spec).                     *)
(***************************************************************************)
EventsOf(ev) == {k \in DOMAIN events : events[k].ev = ev}

EventsFor(ev, t) == {k \in EventsOf(ev) : events[k].ticker = t}

\* The tickers the loop has evaluated: each gets one progress callback.
Evaluated == {events[k].ticker : k \in EventsOf("progress")}

\* The tickers on which a slow operation (enrichment, statements) was run.
Computed == {events[k].ticker : k \in EventsOf("enrich") \cup EventsOf("fetch")}

FailedBasic(t) == \E k \in EventsFor("basic", t) : ~events[k].flag

OffExchange(exch) ==
    filters.exchange # {} /\ exch # NA /\ exch \notin filters.exchange

\* C1: with a non-empty exchange list, a ticker whose exchange is known and
\* is not in the list is never passed to enrich_stock_info nor to
\* get_financial_metrics, whatever path produced the universe.
C1_OffExchangeNeverFetched ==
    \A k \in EventsOf("enrich") \cup EventsOf("fetch") :
        ~OffExchange(events[k].exchange)

C3_ExcludedNeverTouched ==
    /\ \A k \in DOMAIN stocks : stocks[k].ticker \notin exclude_tickers
    /\ \A k \in DOMAIN events : events[k].ticker \notin exclude_tickers
    /\ \A k \in DOMAIN yielded : yielded[k].ticker \notin exclude_tickers

\* A finished run with no filter active, so that every ticker matches,
\* whose universe held an excluded ticker and which yielded the others.
C3_Witness ==
    /\ pc = "done"
    /\ filters.sector = {} /\ filters.exchange = {}
    /\ filters.market_cap_universe = {} /\ ~need_financial
    /\ \E k \in DOMAIN universe : universe[k].ticker \in exclude_tickers
    /\ Len(yielded) = Len(universe) - 1

\* C4: a ticker whose provider call failed is not matched: it is not
\* yielded, and its checked callback reports matched = False.
C4_FailedTickerNotMatched ==
    \A k \in EventsOf("enrich") \cup EventsOf("fetch") :
        ~events[k].flag =>
            /\ EventsFor("yield", events[k].ticker) = {}
            /\ EventsFor("match", events[k].ticker) = {}
            /\ \A c \in EventsFor("checked", events[k].ticker) : ~events[c].flag

\* The messages with which a run that was not aborted ends.
RunMessages == {"No stocks found in universe", "Screening complete"}

\* C5 (as claimed): when the universe query fails the run screens no ticker
\* and does not end the way a run that was not aborted ends.
C5_UniverseFailureAborts ==
    provider_failed =>
        /\ events = << >>
        /\ pc = "done" => final_message \notin RunMessages

\* C5 (amended): when the ROIC universe query raises or returns nothing the
\* run goes on with the NASDAQ list cut to the exchange list or, failing
\* that, the built-in list; a run ends with "No stocks found in universe"
\* exactly when the list is empty after fallback and exclusion, and then
\* evaluates no ticker; every other finished run ends "Screening complete".
C5_UniverseFailureFallsBack ==
    /\ provider_failed =>
          \/ /\ universe_source = "nasdaq"
             /\ universe = NasdaqFallback(NasdaqList, filters.exchange)
          \/ /\ universe_source = "static"
             /\ universe = _get_yahoo_universe
    /\ pc = "done" =>
          /\ final_message \in RunMessages
          /\ final_message = "No stocks found in universe" <=> stocks = << >>
          /\ stocks = << >> => events = << >>

\* A run whose universe query failed and which went on to evaluate tickers
\* and to end like any other run.
C5_Witness ==
    /\ provider_failed
    /\ pc = "done"
    /\ final_message = "Screening complete"
    /\ EventsOf("fetch") # {}

\* C6: with max_stocks = N > 0 at most N stocks are yielded, and nothing
\* happens after the N-th yield: it is the last entry of the log.
C6_MaxStocksStops ==
    max_stocks > 0 =>
        /\ Len(yielded) <= max_stocks
        /\ Cardinality(EventsOf("yield")) <= max_stocks
        /\ Cardinality(EventsOf("yield")) = max_stocks =>
              events[Len(events)].ev = "yield"

\* A run that ended at the max_stocks break with tickers left.
C6_Witness ==
    /\ max_stocks > 0
    /\ pc = "done"
    /\ Len(yielded) = max_stocks
    /\ i <= Len(stocks)

\* C7: wherever the consumer can stop, every ticker on which a slow
\* operation was run has been reported through the checked callback, after
\* the operation; and a yield comes right after the match callback of the
\* same ticker, with the ticker's checked callback before both.
C7_CheckedBeforeYield ==
    /\ \A k \in EventsOf("enrich") \cup EventsOf("fetch") :
          \E c \in EventsFor("checked", events[k].ticker) : c > k
    /\ \A y \in EventsOf("yield") :
          /\ y > 1
          /\ events[y - 1].ev = "match"
          /\ events[y - 1].ticker = events[y].ticker
          /\ \A c \in EventsFor("checked", events[y].ticker) :
                c < y - 1 /\ events[c].flag
          /\ events[y].ticker \in Computed =>
                EventsFor("checked", events[y].ticker) # {}

\* The consumer stopped after a match on which statements were fetched.
C7_Witness ==
    /\ pc = "cancelled"
    /\ events[Len(events)].ev = "yield"
    /\ EventsFor("fetch", events[Len(events)].ticker) # {}
    /\ Len(stocks) > i

(***************************************************************************)
(* The filter fingerprint.  A filter dict is the sequence of its           *)
(* <<key, value>> pairs in insertion order, each value as its JSON text.   *)
(***************************************************************************)
\* Largest number of keys of a filter dict.
MaxKeys == 2

\* The keys of a filter dict, in the order in which strings compare.
FilterKeyOrder == <<"exchange", "min_gross_margin", "sector">>

KeyRank(key) == CHOOSE k \in 1..Len(FilterKeyOrder) : FilterKeyOrder[k] = key

FilterValues(key) ==
    IF key = "exchange" THEN {"[]", "[NASDAQ]"}
    ELSE IF key = "min_gross_margin" THEN {"0", "40"}
    ELSE {"[]", "[Technology]"}

\* The texts a serialised dict is made of, each with a code of its own.
TokenOrder ==
    <<"exchange", "min_gross_margin", "sector", "[]", "[NASDAQ]", "0", "40",
      "[Technology]">>

TokenCode(text) == CHOOSE k \in 1..Len(TokenOrder) : TokenOrder[k] = text

RECURSIVE DictsOver(_, _)
DictsOver(keys, n) ==
    IF n = 0 THEN {<< >>}
    ELSE LET shorter == DictsOver(keys, n - 1)
         IN  shorter \cup
             { Append(d, <<key, v>>) :
                 d \in {x \in shorter : Len(x) = n - 1},
                 key \in keys, v \in UNION {FilterValues(q) : q \in keys} }

HasDistinctKeys(d) ==
    \A a, b \in DOMAIN d : a # b => d[a][1] # d[b][1]

\* Every filter dict of at most MaxKeys keys.
FilterDicts ==
    { d \in DictsOver({FilterKeyOrder[k] : k \in DOMAIN FilterKeyOrder}, MaxKeys) :
        /\ HasDistinctKeys(d)
        /\ \A a \in DOMAIN d : d[a][2] \in FilterValues(d[a][1]) }

\* Mutant of json_dumps_sorted: json.dumps without sort_keys.
json_dumps_unsorted(d) == d

RECURSIVE InsertByKey(_, _)
InsertByKey(sorted, pair) ==
    IF sorted = << >> THEN <<pair>>
    ELSE IF KeyRank(pair[1]) < KeyRank(Head(sorted)[1]) THEN <<pair>> \o sorted
         ELSE <<Head(sorted)>> \o InsertByKey(Tail(sorted), pair)

\* json.dumps(filters, sort_keys=True): the pairs in the order of their keys.
RECURSIVE json_dumps_sorted(_)
json_dumps_sorted(d) ==
    IF d = << >> THEN << >>
    ELSE InsertByKey(json_dumps_sorted(SubSeq(d, 1, Len(d) - 1)), d[Len(d)])

\* The width of the model's digest, in place of the 64 bits of the source.
HashModulus == 2 ^ 15

\* hashlib.md5(text).digest()[:8] as an unsigned number: a fixed function of
\* the text, here a polynomial over the codes of its parts.
RECURSIVE Md5Prefix(_)
Md5Prefix(text) ==
    IF text = << >> THEN 7
    ELSE (Md5Prefix(SubSeq(text, 1, Len(text) - 1)) * 131
            + TokenCode(text[Len(text)][1]) * 17
            + TokenCode(text[Len(text)][2])) % HashModulus

\* int.from_bytes(..., byteorder='big', signed=True)
FromBytesSigned(n) == IF n >= HashModulus \div 2 THEN n - HashModulus ELSE n

\* _get_filter_hash.  seed is the hash seed of the calling interpreter,
\* which the function does not use.
_get_filter_hash(d, seed) ==
    IF d = << >> THEN 0
    ELSE FromBytesSigned(Md5Prefix(json_dumps_sorted(d)))

(***************************************************************************)
(* Computing the fingerprint in two interpreter processes.                 *)
(***************************************************************************)
Procs == {1, 2}

\* PYTHONHASHSEED of an interpreter process.
HashSeeds == {0, 1}

\* What a process knows of its fingerprint: the one it has computed, if any,
\* and the one it had computed before its last restart, if any.
NotHashed == [done |-> FALSE, value |-> 0, prev_done |-> FALSE, prev_value |-> 0]

\* Process p calls _get_filter_hash on its dict.
ComputeHash(p) ==
    /\ pc = "idle"
    /\ p \in DOMAIN hash_out
    /\ ~hash_out[p].done
    /\ hash_out' = [hash_out EXCEPT
           ![p].done = TRUE,
           ![p].value = _get_filter_hash(hash_dict[p], hash_seed[p])]
    /\ UNCHANGED <<hash_dict, hash_seed, screenVars, cacheVars, dcfVars,
                   storeVars, workerVars, filterVars>>

\* Process p is restarted: a new interpreter, with a new hash seed.
Restart(p) ==
    /\ pc = "idle"
    /\ p \in DOMAIN hash_out
    /\ hash_out[p].done
    /\ \E seed \in HashSeeds :
           hash_seed' = [hash_seed EXCEPT ![p] = seed]
    /\ hash_out' = [hash_out EXCEPT
           ![p] = [done |-> FALSE, value |-> 0,
                   prev_done |-> TRUE, prev_value |-> hash_out[p].value]]
    /\ UNCHANGED <<hash_dict, screenVars, cacheVars, dcfVars,
                   storeVars, workerVars, filterVars>>

InitHash ==
    /\ ScreenIdle
    /\ CacheIdle
    /\ DcfIdle
    /\ StoreIdle
    /\ WorkerIdle
    /\ FilterIdle
    /\ hash_dict \in [Procs -> FilterDicts]
    /\ hash_seed \in [Procs -> HashSeeds]
    /\ hash_out = [p \in Procs |-> NotHashed]

NextHash == \E p \in Procs : ComputeHash(p) \/ Restart(p)

SpecHash == InitHash /\ [][NextHash]_vars

\* Two dicts with the same keys and the same value for each key.
SameContent(d1, d2) ==
    {d1[k] : k \in DOMAIN d1} = {d2[k] : k \in DOMAIN d2}

\* C10: _get_filter_hash depends on the content of the filter dict only: two
\* dicts with the same keys and values have the same fingerprint whatever the
\* order of their keys and whichever process computes it, and a process
\* computes the same fingerprint again after a restart.
C10_FingerprintOfContentOnly ==
    /\ \A p, q \in DOMAIN hash_out :
           (hash_out[p].done /\ hash_out[q].done
               /\ SameContent(hash_dict[p], hash_dict[q]))
           => hash_out[p].value = hash_out[q].value
    /\ \A p \in DOMAIN hash_out :
           (hash_out[p].done /\ hash_out[p].prev_done)
           => hash_out[p].value = hash_out[p].prev_value

\* Two processes with different hash seeds have fingerprinted the same
\* filters given in different key orders, one of them after a restart.
C10_Witness ==
    /\ DOMAIN hash_out = Procs
    /\ hash_out[1].done /\ hash_out[2].done
    /\ hash_out[1].prev_done
    /\ hash_seed[1] # hash_seed[2]
    /\ hash_dict[1] # hash_dict[2]
    /\ SameContent(hash_dict[1], hash_dict[2])
    /\ hash_out[1].value = hash_out[2].value
    /\ hash_out[1].value # 0

(***************************************************************************)
(* The checked-ticker cache of db_storage, written by concurrent           *)
(* screening runs.                                                         *)
(***************************************************************************)
\* Days the clock may advance.
MaxClock == 2

\* Largest retention window queried, in days.
MaxDays == 2

\* Largest number of save_checked_ticker calls.
MaxSaves == 2

Runs == {1, 2}

CacheTickers == {"AAPL", "MSFT"}

\* The filter dicts of the screening runs: two filter sets, the second one
\* also with its keys in the other order.
CacheFilters ==
    { <<<<"sector", "[Technology]">>>>,
      <<<<"exchange", "[NASDAQ]">>, <<"min_gross_margin", "40">>>>,
      <<<<"min_gross_margin", "40">>, <<"exchange", "[NASDAQ]">>>> }

\* The unique constraint of the checked_tickers table.
CacheKeys == CacheTickers \X {_get_filter_hash(d, 0) : d \in CacheFilters}

Row(matched, checked_at) == [matched |-> matched, checked_at |-> checked_at]

\* Mutant of Upsert: a plain insert.
UpsertAsInsert(table, key, row) ==
    [table EXCEPT ![key] = Append(@, row)]

\* Mutant of Upsert: the write replaces every row of the ticker.
UpsertReplacingTicker(table, key, row) ==
    [k \in DOMAIN table |->
        IF k = key THEN <<row>>
        ELSE IF k[1] = key[1] THEN << >> ELSE table[k]]

\* table.upsert(data, on_conflict='ticker,filter_hash')
Upsert(table, key, row) ==
    [table EXCEPT ![key] = <<row>>]

NoSave ==
    [ticker |-> "", filters |-> << >>, filter_hash |-> 0, matched |-> FALSE,
     at |-> 0, ok |-> FALSE, n |-> 0]

\* The save_checked_ticker call that has just returned; n counts, up to two,
\* the calls in a row with the same (ticker, fingerprint, matched).
NoteSave(ticker, d, h, matched, at, ok) ==
    [ticker |-> ticker, filters |-> d, filter_hash |-> h, matched |-> matched,
     at |-> at, ok |-> ok,
     n |-> IF /\ last_save.n >= 1
              /\ last_save.ticker = ticker
              /\ last_save.filter_hash = h
              /\ last_save.matched = matched
           THEN 2 ELSE 1]

\* save_checked_ticker(ticker, filters, matched), up to the request to the
\* store.  On SQLite the call does nothing and returns.
save_checked_ticker(r) ==
    /\ pc = "idle"
    /\ r \in DOMAIN run_pc
    /\ run_pc[r] = "idle"
    /\ saves < MaxSaves
    /\ saves' = saves + 1
    /\ \E ticker \in CacheTickers, matched \in BOOLEAN :
         LET h == _get_filter_hash(run_filters[r], r)
         IN  IF use_supabase
             THEN /\ pending' = [pending EXCEPT ![r] =
                         [ticker |-> ticker, filter_hash |-> h,
                          matched |-> matched, checked_at |-> clock]]
                  /\ run_pc' = [run_pc EXCEPT ![r] = "saving"]
                  /\ UNCHANGED <<called, last_save>>
             ELSE /\ called' = called \cup {<<ticker, h>>}
                  /\ last_save' = NoteSave(ticker, run_filters[r], h, matched,
                                           clock, FALSE)
                  /\ UNCHANGED <<pending, run_pc>>
    /\ UNCHANGED <<use_supabase, checked_tickers, clock, run_filters, written,
                   screenVars, hashVars, dcfVars, storeVars,
                   workerVars, filterVars>>

\* The store answers the upsert of run r; an error is printed and dropped.
SupabaseUpsert(r) ==
    /\ pc = "idle"
    /\ r \in DOMAIN run_pc
    /\ run_pc[r] = "saving"
    /\ LET data == pending[r]
           key == <<data.ticker, data.filter_hash>>
       IN  /\ \E ok \in BOOLEAN :
                /\ IF ok
                   THEN /\ checked_tickers' =
                              Upsert(checked_tickers, key,
                                     Row(data.matched, data.checked_at))
                        /\ written' = written \cup {key}
                   ELSE UNCHANGED <<checked_tickers, written>>
                /\ last_save' = NoteSave(data.ticker, run_filters[r],
                                         data.filter_hash, data.matched,
                                         data.checked_at, ok)
           /\ called' = called \cup {key}
    /\ run_pc' = [run_pc EXCEPT ![r] = "idle"]
    /\ UNCHANGED <<use_supabase, clock, run_filters, pending, saves,
                   screenVars, hashVars, dcfVars, storeVars,
                   workerVars, filterVars>>

\* A day passes.
Tick ==
    /\ pc = "idle"
    /\ DOMAIN run_pc = Runs
    /\ clock < MaxClock
    /\ clock' = clock + 1
    /\ UNCHANGED <<use_supabase, checked_tickers, run_filters, run_pc, pending,
                   called, written, last_save, saves, screenVars, hashVars, dcfVars, storeVars,
                   workerVars, filterVars>>

\* get_recently_checked_tickers(filters, days); ok says whether the query to
\* the store succeeds.
get_recently_checked_tickers(d, days, ok) ==
    IF use_supabase /\ ok
    THEN LET h == _get_filter_hash(d, 0)
         IN  { t \in CacheTickers :
                 \E k \in DOMAIN checked_tickers[<<t, h>>] :
                     checked_tickers[<<t, h>>][k].checked_at >= clock - days }
    ELSE {}

InitCache ==
    /\ ScreenIdle
    /\ HashIdle
    /\ DcfIdle
    /\ StoreIdle
    /\ WorkerIdle
    /\ FilterIdle
    /\ use_supabase \in BOOLEAN
    /\ checked_tickers = [key \in CacheKeys |-> << >>]
    /\ clock = 0
    /\ run_filters \in [Runs -> CacheFilters]
    /\ run_pc = [r \in Runs |-> "idle"]
    /\ pending = [r \in Runs |->
                    [ticker |-> "", filter_hash |-> 0, matched |-> FALSE,
                     checked_at |-> 0]]
    /\ called = {}
    /\ written = {}
    /\ last_save = NoSave
    /\ saves = 0

NextCache ==
    \/ \E r \in Runs : save_checked_ticker(r)
    \/ \E r \in Runs : SupabaseUpsert(r)
    \/ Tick

SpecCache == InitCache /\ [][NextCache]_vars

LastKey == <<last_save.ticker, last_save.filter_hash>>

InWindow(days) == clock - last_save.at <= days

\* C8 as stated: after two identical save_checked_ticker calls the key has
\* exactly one record on every backend, and within the retention window
\* get_recently_checked_tickers for those filters contains the ticker.
C8_TwiceExactlyOneRecord ==
    last_save.n = 2 =>
        /\ Len(checked_tickers[LastKey]) = 1
        /\ \A days \in 1..MaxDays :
               InWindow(days) =>
                   last_save.ticker \in
                       get_recently_checked_tickers(last_save.filters, days, TRUE)

\* C8, amended: after two identical save_checked_ticker calls the key has at
\* most one record on every backend.  On Supabase it has exactly one as soon
\* as an upsert for the key has succeeded, and when the last call succeeded
\* that record is the last call's and the ticker is reported as recently
\* checked within the window; on SQLite nothing is recorded and nothing is
\* reported.
C8_TwiceAtMostOneRecord ==
    last_save.n = 2 =>
        /\ Len(checked_tickers[LastKey]) =
              (IF use_supabase /\ LastKey \in written THEN 1 ELSE 0)
        /\ last_save.ok =>
              /\ checked_tickers[LastKey] =
                    <<Row(last_save.matched, last_save.at)>>
              /\ \A days \in 1..MaxDays :
                    InWindow(days) =>
                        last_save.ticker \in
                            get_recently_checked_tickers(last_save.filters,
                                                         days, TRUE)
        /\ ~use_supabase =>
              \A days \in 1..MaxDays :
                  get_recently_checked_tickers(last_save.filters, days, TRUE) = {}

\* The same call has been made twice on Supabase, both upserts succeeded, a
\* day apart, and the key holds the one record of the second call.
C8_Witness ==
    /\ use_supabase
    /\ last_save.n = 2
    /\ last_save.ok
    /\ last_save.at > 0
    /\ clock > last_save.at
    /\ Len(checked_tickers[LastKey]) = 1

AllWritesDone == \A r \in DOMAIN run_pc : run_pc[r] = "idle"

\* C9 as stated: once all the writes of the concurrent runs are done, every
\* key save_checked_ticker was called for has exactly one record.
C9_EveryCalledKeyRecorded ==
    AllWritesDone =>
        \A key \in called : Len(checked_tickers[key]) = 1

\* A change to the rows of a key is the upsert of a run for that very key.
IsolatedWrite ==
    \A key \in DOMAIN checked_tickers :
        checked_tickers'[key] # checked_tickers[key] =>
            \E r \in DOMAIN run_pc :
                /\ run_pc[r] = "saving" /\ run_pc'[r] = "idle"
                /\ key = <<pending[r].ticker, pending[r].filter_hash>>

\* Every key with a successful upsert has one record, every other key none.
WrittenOnce ==
    \A key \in DOMAIN checked_tickers :
        Len(checked_tickers[key]) = (IF key \in written THEN 1 ELSE 0)

\* C9, amended: a write of one run changes the record of its own
\* (ticker, fingerprint) key only, whatever the other run is writing, and at
\* every moment each key whose upsert has succeeded has exactly one record
\* and every other key (SQLite backend, failed upsert) has none.
C9_WritesIsolated == [][IsolatedWrite /\ WrittenOnce']_vars

\* Both runs are writing the same ticker under different fingerprints at the
\* same time.
C9_Witness ==
    /\ DOMAIN run_pc = Runs
    /\ run_pc[1] = "saving" /\ run_pc[2] = "saving"
    /\ pending[1].ticker = pending[2].ticker
    /\ pending[1].filter_hash # pending[2].filter_hash
    /\ use_supabase

(***************************************************************************)
(* The DCF engine (dcf_calculator.py).  A Python float is an exact         *)
(* rational here: a record [n, d] in lowest terms with d > 0.              *)
(***************************************************************************)
Abs(n) == IF n < 0 THEN -n ELSE n

Min(a, b) == IF a <= b THEN a ELSE b

Max(a, b) == IF a >= b THEN a ELSE b

RECURSIVE Gcd(_, _)
Gcd(a, b) == IF b = 0 THEN a ELSE Gcd(b, a % b)

Rat(n, d) ==
    LET g == Gcd(Abs(n), Abs(d))
        sgn == IF d < 0 THEN -1 ELSE 1
    IN  [n |-> (sgn * n) \div g, d |-> (sgn * d) \div g]

Zero == Rat(0, 1)

One == Rat(1, 1)

RAdd(a, b) == Rat(a.n * b.d + b.n * a.d, a.d * b.d)

RSub(a, b) == Rat(a.n * b.d - b.n * a.d, a.d * b.d)

RMul(a, b) == Rat(a.n * b.n, a.d * b.d)

\* a / b, for b # 0
RDiv(a, b) == Rat(a.n * b.d, a.d * b.n)

RLt(a, b) == a.n * b.d < b.n * a.d

RLe(a, b) == a.n * b.d <= b.n * a.d

RECURSIVE RPow(_, _)
RPow(a, k) == IF k <= 0 THEN One ELSE RMul(a, RPow(a, k - 1))

RECURSIVE RSum(_)
RSum(seq) == IF seq = << >> THEN Zero ELSE RAdd(Head(seq), RSum(Tail(seq)))

\* seq[:k] of Python, for any integer k
Slice(seq, k) ==
    IF k >= 0 THEN SubSeq(seq, 1, Min(k, Len(seq)))
    ELSE SubSeq(seq, 1, Max(0, Len(seq) + k))

\* The grain of a computed root: results are rounded down to 1/CagrScale.
CagrScale == 2 * 5

\* ratio ** (1 / n) - 1 for ratio > 0 and n >= 1, rounded down to the grain.
RootMinusOne(ratio, n) ==
    LET top == CagrScale * (ratio.n \div ratio.d + 1)
        fits(k) == ((CagrScale + k) ^ n) * ratio.d <= ratio.n * (CagrScale ^ n)
        k == CHOOSE x \in (-CagrScale)..top :
                 fits(x) /\ (x = top \/ ~fits(x + 1))
    IN  Rat(k, CagrScale)

\* Mutant of ClampCagr: the cap is not applied.
ClampCagrNot(cagr) == cagr

\* max(-0.5, min(1.0, cagr))
ClampCagr(cagr) ==
    LET capped == IF RLt(One, cagr) THEN One ELSE cagr
    IN  IF RLt(capped, Rat(-1, 2)) THEN Rat(-1, 2) ELSE capped

\* DCFCalculator.calculate_historical_fcf_growth; the series is newest first.
calculate_historical_fcf_growth(historical, years) ==
    IF Len(historical) < 2 THEN Zero
    ELSE
    LET fcf_subset == Slice(historical, Min(years, Len(historical)))
        positive_fcf == SelectSeq(fcf_subset, LAMBDA fcf : RLt(Zero, fcf))
    IN  IF Len(positive_fcf) < 2 THEN Zero
        ELSE
        LET ending_value == positive_fcf[1]
            beginning_value == positive_fcf[Len(positive_fcf)]
            num_years == Len(positive_fcf) - 1
        IN  ClampCagr(RootMinusOne(RDiv(ending_value, beginning_value),
                                   num_years))

\* What a function of the calculator did: kind is "value", "none" (it
\* returned None or an empty list) or "raised" (ZeroDivisionError).
Projection(kind, list) == [kind |-> kind, list |-> list]

\* Mutant of GrowthFactor: the growth of the projection is the historical
\* growth of the series.
GrowthFactorOfHistory(historical, growth_rate) ==
    RAdd(One, calculate_historical_fcf_growth(historical, 5))

\* (1 + growth_rate), the yearly factor of the projection of `historical`.
GrowthFactor(historical, growth_rate) == RAdd(One, growth_rate)

\* DCFCalculator.project_fcf_simple
project_fcf_simple(historical, projection_years, growth_rate, normalize, normalization_years) ==
    IF historical = << >> THEN Projection("none", << >>)
    ELSE IF normalize /\ Len(historical) >= 2
                /\ Min(normalization_years, Len(historical)) = 0
    THEN Projection("raised", << >>)
    ELSE
    LET n == Min(normalization_years, Len(historical))
        base_fcf == IF normalize /\ Len(historical) >= 2
                    THEN RDiv(RSum(Slice(historical, n)), Rat(n, 1))
                    ELSE historical[1]
        projections ==
            [year \in 1..projection_years |->
                RMul(base_fcf, RPow(GrowthFactor(historical, growth_rate), year))]
    IN  Projection(IF projections = << >> THEN "none" ELSE "value", projections)

\* Mutant of calculate_terminal_value: the fallback multiple is 10.
terminal_value_multiple_10(final_fcf, terminal_growth_rate, wacc) ==
    IF RLe(wacc, terminal_growth_rate) THEN RMul(final_fcf, Rat(10, 1))
    ELSE RDiv(RMul(final_fcf, RAdd(One, terminal_growth_rate)),
              RSub(wacc, terminal_growth_rate))

\* DCFCalculator.calculate_terminal_value
calculate_terminal_value(final_fcf, terminal_growth_rate, wacc) ==
    IF RLe(wacc, terminal_growth_rate) THEN RMul(final_fcf, Rat(20, 1))
    ELSE RDiv(RMul(final_fcf, RAdd(One, terminal_growth_rate)),
              RSub(wacc, terminal_growth_rate))

\* DCFCalculator.discount_cash_flows: the loop, from the last year back.
RECURSIVE discount_cash_flows(_, _)
discount_cash_flows(cash_flows, wacc) ==
    IF cash_flows = << >> THEN Zero
    ELSE LET year == Len(cash_flows)
         IN  RAdd(discount_cash_flows(SubSeq(cash_flows, 1, year - 1), wacc),
                  RDiv(cash_flows[year], RPow(RAdd(One, wacc), year)))

\* Mutant of PvTerminal: the terminal value is discounted one year further.
PvTerminalLate(terminal_value, wacc, projection_years) ==
    RDiv(terminal_value, RPow(RAdd(One, wacc), projection_years + 1))

\* terminal_value / ((1 + wacc) ** projection_years)
PvTerminal(terminal_value, wacc, projection_years) ==
    RDiv(terminal_value, RPow(RAdd(One, wacc), projection_years))

NoDcf(kind) ==
    [kind |-> kind, fcf_projections |-> << >>, pv_fcf |-> Zero,
     terminal_value |-> Zero, pv_terminal |-> Zero, enterprise_value |-> Zero]

\* DCFCalculator.calculate_dcf_simple
calculate_dcf_simple(historical, params) ==
    LET projected ==
            project_fcf_simple(historical, params.projection_years,
                               params.fcf_growth_rate,
                               params.normalize_starting_value,
                               params.normalization_years)
    IN  IF projected.kind # "value" THEN NoDcf(projected.kind)
        ELSE
        LET fcf_projections == projected.list
            terminal_value ==
                calculate_terminal_value(fcf_projections[Len(fcf_projections)],
                                         params.terminal_growth_rate, params.wacc)
            pv_fcf == discount_cash_flows(fcf_projections, params.wacc)
            pv_terminal == PvTerminal(terminal_value, params.wacc,
                                      params.projection_years)
        IN  [kind |-> "value", fcf_projections |-> fcf_projections,
             pv_fcf |-> pv_fcf, terminal_value |-> terminal_value,
             pv_terminal |-> pv_terminal,
             enterprise_value |-> RAdd(pv_fcf, pv_terminal)]

(***************************************************************************)
(* Calling the functions of the calculator on a historical series.         *)
(***************************************************************************)
\* Longest historical series.
MaxPeriods == 3

\* Largest lookback passed to calculate_historical_fcf_growth.
MaxLookback == 3

\* Largest projection_years.
MaxProjection == 2

\* Values of a period: negative, zero, and positive ones whose ratios fall
\* inside and outside the cap of the growth rate.
FcfValues == {-4, 0, 2, 3, 8}

RECURSIVE SeriesOver(_, _)
SeriesOver(values, n) ==
    IF n = 0 THEN {<< >>}
    ELSE LET shorter == SeriesOver(values, n - 1)
         IN  shorter \cup
             { Append(h, Rat(v, 1)) :
                 h \in {x \in shorter : Len(x) = n - 1}, v \in values }

\* The (wacc, terminal_growth_rate) pairs: wacc above, equal and below.
RatePairs == {<<Rat(1, 4), Zero>>, <<Rat(1, 4), Rat(1, 4)>>, <<Rat(1, 4), Rat(1, 2)>>}

Params(rates, years, growth, adj, input, normalize, norm_years) ==
    [wacc |-> rates[1], terminal_growth_rate |-> rates[2],
     projection_years |-> years, fcf_growth_rate |-> growth,
     conservative_adjustment |-> adj, dcf_input_type |-> input,
     normalize_starting_value |-> normalize, normalization_years |-> norm_years]

\* normalize_starting_value with normalization_years, well-formed.
Normalizations == {<<FALSE, 1>>, <<TRUE, 1>>, <<TRUE, 2>>}

\* Well-formed params for one call of calculate_dcf_simple.
FnParams ==
    { Params(r, y, g, Zero, "fcf", nz[1], nz[2]) :
        r \in RatePairs, y \in 1..MaxProjection, g \in {Zero, Rat(1, 2)},
        nz \in Normalizations }

Call(fn, years, final, value, dcf) ==
    [fn |-> fn, years |-> years, final |-> final, value |-> value, dcf |-> dcf]

NoCall == Call("", 0, Zero, Zero, NoDcf("none"))

\* calculate_historical_fcf_growth(historical_fcf, years) is called.
CallHistoricalGrowth ==
    /\ pc = "idle"
    /\ fn_call # << >>
    /\ \E years \in (-1)..MaxLookback :
         fn_call' = Call("calculate_historical_fcf_growth", years, Zero,
                         calculate_historical_fcf_growth(historical_fcf, years),
                         NoDcf("none"))
    /\ UNCHANGED <<dcf_data, dcf_params, dcf_result, historical_fcf,
                   screenVars, cacheVars, hashVars, storeVars,
                   workerVars, filterVars>>

\* calculate_terminal_value is called on a value of the series.
CallTerminalValue ==
    /\ pc = "idle"
    /\ fn_call # << >>
    /\ \E k \in DOMAIN historical_fcf :
         fn_call' = Call("calculate_terminal_value", 0, historical_fcf[k],
                         calculate_terminal_value(historical_fcf[k],
                                                  dcf_params.terminal_growth_rate,
                                                  dcf_params.wacc),
                         NoDcf("none"))
    /\ UNCHANGED <<dcf_data, dcf_params, dcf_result, historical_fcf,
                   screenVars, cacheVars, hashVars, storeVars,
                   workerVars, filterVars>>

\* calculate_dcf_simple(historical_fcf, params) is called.
CallDcfSimple ==
    /\ pc = "idle"
    /\ fn_call # << >>
    /\ fn_call' = Call("calculate_dcf_simple", 0, Zero, Zero,
                       calculate_dcf_simple(historical_fcf, dcf_params))
    /\ UNCHANGED <<dcf_data, dcf_params, dcf_result, historical_fcf,
                   screenVars, cacheVars, hashVars, storeVars,
                   workerVars, filterVars>>

InitDcfFn ==
    /\ ScreenIdle
    /\ CacheIdle
    /\ HashIdle
    /\ StoreIdle
    /\ WorkerIdle
    /\ FilterIdle
    /\ dcf_data = << >>
    /\ dcf_result = << >>
    /\ dcf_params \in FnParams
    /\ historical_fcf \in SeriesOver(FcfValues, MaxPeriods)
    /\ fn_call = NoCall

NextDcfFn == CallHistoricalGrowth \/ CallTerminalValue \/ CallDcfSimple

SpecDcfFn == InitDcfFn /\ [][NextDcfFn]_vars

IsFinite(r) == r.d > 0

FallbackCall ==
    /\ fn_call.fn = "calculate_terminal_value"
    /\ RLe(dcf_params.wacc, dcf_params.terminal_growth_rate)

\* C11 as stated: with wacc <= terminal_growth_rate, calculate_terminal_value
\* returns exactly final_value * 20, a value that is never infinite and never
\* negative.
C11_FallbackNeverNegative ==
    FallbackCall =>
        /\ RDiv(fn_call.value, Rat(20, 1)) = fn_call.final
        /\ IsFinite(fn_call.value)
        /\ RLe(Zero, fn_call.value)

\* C11, amended: with wacc <= terminal_growth_rate, calculate_terminal_value
\* returns exactly final_value * 20, a finite value that has the sign of
\* final_value: it is negative exactly when final_value is negative.
C11_FallbackTwentyTimes ==
    FallbackCall =>
        /\ RDiv(fn_call.value, Rat(20, 1)) = fn_call.final
        /\ IsFinite(fn_call.value)
        /\ RLt(fn_call.value, Zero) <=> RLt(fn_call.final, Zero)

\* The fallback has been taken with wacc below the terminal growth rate on a
\* negative final value.
C11_Witness ==
    /\ FallbackCall
    /\ RLt(dcf_params.wacc, dcf_params.terminal_growth_rate)
    /\ fn_call.final = Rat(-4, 1)
    /\ fn_call.value = Rat(-80, 1)

\* C13: whatever the series and the lookback, the value returned by
\* calculate_historical_fcf_growth lies in [-0.50, 1.00].
C13_GrowthWithinCaps ==
    fn_call.fn = "calculate_historical_fcf_growth" =>
        /\ RLe(Rat(-1, 2), fn_call.value)
        /\ RLe(fn_call.value, One)

\* The growth of a series that fell from 8 to 2 in one year, with a zero or
\* negative value between them, has been capped at -0.50.
C13_Witness ==
    /\ fn_call.fn = "calculate_historical_fcf_growth"
    /\ Len(historical_fcf) = 3
    /\ historical_fcf[1] = Rat(2, 1)
    /\ ~RLt(Zero, historical_fcf[2])
    /\ historical_fcf[3] = Rat(8, 1)
    /\ fn_call.years = 3
    /\ fn_call.value = Rat(-1, 2)

\* The sum of projected[t] / (1 + wacc)^t for t = 1..n.
RECURSIVE PresentValueOfYears(_, _, _)
PresentValueOfYears(projected, wacc, n) ==
    IF n = 0 THEN Zero
    ELSE RAdd(RDiv(projected[n], RPow(RAdd(One, wacc), n)),
              PresentValueOfYears(projected, wacc, n - 1))

CashFlow(date, fcf) == [date |-> date, freeCashFlow |-> fcf]

Income(date, eps) == [date |-> date, eps_cont_ops |-> eps]

BalanceSheet(cash, debt, stock, sh_out) ==
    [cashAndCashEquivalents |-> cash, totalDebt |-> debt, commonStock |-> stock,
     bs_sh_out |-> sh_out]

KeyMetric(date, shares) == [date |-> date, numberOfShares |-> shares]

\* The fiscal year of period k, the newest being period 1.
PeriodDate(k) == 2025 - k

\* The statements of a company whose cash flows, and earnings per share, are
\* the numbers of `series`, newest first.
FinancialData(series, sheets, metrics, price, cap) ==
    [cash_flows |-> [k \in DOMAIN series |-> CashFlow(PeriodDate(k), series[k])],
     income_statements |-> [k \in DOMAIN series |-> Income(PeriodDate(k), series[k])],
     balance_sheets |-> sheets, key_metrics |-> metrics,
     current_price |-> price, mktCap |-> cap]

\* Where the share count can come from: no balance sheet at all; the balance
\* sheet; the key metrics; market cap / price; nowhere; per-period counts of
\* the balance sheet only; key metrics of two periods with different counts.
ShareSources ==
    { [sheets |-> << >>, metrics |-> << >>, price |-> 0, cap |-> 0],
      [sheets |-> <<BalanceSheet(10, 4, 2, 0)>>, metrics |-> << >>,
       price |-> 0, cap |-> 0],
      [sheets |-> <<BalanceSheet(10, 4, 0, 0)>>,
       metrics |-> <<KeyMetric(PeriodDate(1), 4)>>, price |-> 0, cap |-> 0],
      [sheets |-> <<BalanceSheet(10, 4, 0, 0)>>, metrics |-> << >>,
       price |-> 5, cap |-> 20],
      [sheets |-> <<BalanceSheet(10, 4, 0, 0)>>, metrics |-> << >>,
       price |-> 0, cap |-> 0],
      [sheets |-> <<BalanceSheet(10, 4, 0, 2)>>, metrics |-> << >>,
       price |-> 0, cap |-> 0],
      [sheets |-> <<BalanceSheet(10, 4, 0, 0)>>,
       metrics |-> <<KeyMetric(PeriodDate(1), 4), KeyMetric(PeriodDate(2), 2)>>,
       price |-> 0, cap |-> 0] }

\* Amounts of a period in the statements given to run_full_dcf.
RunValues == {-4, 0, 2, 8}

RECURSIVE IntSeriesOver(_, _)
IntSeriesOver(values, n) ==
    IF n = 0 THEN {<< >>}
    ELSE LET shorter == IntSeriesOver(values, n - 1)
         IN  shorter \cup
             { Append(h, v) : h \in {x \in shorter : Len(x) = n - 1}, v \in values }

FinancialDataSets ==
    { FinancialData(series, src.sheets, src.metrics, src.price, src.cap) :
        series \in IntSeriesOver(RunValues, MaxPeriods), src \in ShareSources }

\* The params given to run_full_dcf, some of them malformed: a negative
\* projection_years, normalization_years = 0 with normalization on.
RunParams ==
    { Params(r, y, g, adj, input, nz[1], nz[2]) :
        r \in {<<Rat(1, 4), Zero>>, <<Rat(1, 4), Rat(1, 2)>>},
        y \in {-1} \cup 1..MaxProjection, g \in {Zero, Rat(1, 2)},
        adj \in {Zero, Rat(1, 5)}, input \in {"fcf", "eps_cont_ops"},
        nz \in {<<FALSE, 1>>, <<TRUE, 0>>, <<TRUE, 2>>} }

\* run_full_dcf: the current share count.
CurrentShares(financial_data) ==
    LET latest_bs == financial_data.balance_sheets[1]
        from_bs == Rat(latest_bs.commonStock, 1)
        from_metrics ==
            IF financial_data.key_metrics # << >>
                  /\ financial_data.key_metrics[1].numberOfShares > 0
            THEN Rat(financial_data.key_metrics[1].numberOfShares, 1)
            ELSE from_bs
    IN  IF from_metrics = Zero /\ financial_data.current_price > 0
              /\ financial_data.mktCap > 0
        THEN Rat(financial_data.mktCap, financial_data.current_price)
        ELSE from_metrics

\* Mutant of PeriodShares: every period is divided by the current count.
PeriodSharesCurrent(financial_data, k, shares) == shares

\* run_full_dcf: the share count of the period of cash flow number k.
PeriodShares(financial_data, k, shares) ==
    LET date == financial_data.cash_flows[k].date
        key_metrics == financial_data.key_metrics
        matching == {m \in DOMAIN key_metrics : key_metrics[m].date = date}
        first == CHOOSE m \in matching : \A o \in matching : m <= o
        by_date == IF matching = {} THEN 0 ELSE key_metrics[first].numberOfShares
        by_sheet == IF by_date = 0 /\ k <= Len(financial_data.balance_sheets)
                    THEN financial_data.balance_sheets[k].bs_sh_out
                    ELSE by_date
    IN  IF by_sheet = 0 THEN shares ELSE Rat(by_sheet, 1)

\* run_full_dcf: the historical per-share values, newest first, in FCF mode.
RECURSIVE FcfPerShare(_, _, _)
FcfPerShare(financial_data, k, shares) ==
    IF k > Min(10, Len(financial_data.cash_flows)) THEN << >>
    ELSE LET fcf == financial_data.cash_flows[k].freeCashFlow
             period_shares == PeriodShares(financial_data, k, shares)
             rest == FcfPerShare(financial_data, k + 1, shares)
         IN  IF fcf # 0 /\ RLt(Zero, period_shares)
             THEN <<RDiv(Rat(fcf, 1), period_shares)>> \o rest
             ELSE rest

\* run_full_dcf: the historical values in EPS mode.
EpsContOps(financial_data) ==
    LET first == Slice(financial_data.income_statements, 10)
        kept == SelectSeq(first, LAMBDA inc : inc.eps_cont_ops # 0)
    IN  [k \in DOMAIN kept |-> Rat(kept[k].eps_cont_ops, 1)]

HistoricalValues(financial_data, params, shares) ==
    IF params.dcf_input_type = "eps_cont_ops" THEN EpsContOps(financial_data)
    ELSE FcfPerShare(financial_data, 1, shares)

\* calculate_intrinsic_value_per_share
calculate_intrinsic_value_per_share(enterprise_value, cash, debt, shares_outstanding) ==
    IF RLe(shares_outstanding, Zero) THEN Zero
    ELSE RDiv(RSub(RAdd(enterprise_value, cash), debt), shares_outstanding)

\* Mutant of PerShare: the total, not divided by the share count.
PerShareNot(amount, shares) == amount

\* amount / shares if shares > 0 else 0
PerShare(amount, shares) ==
    IF RLt(Zero, shares) THEN RDiv(amount, shares) ELSE Zero

\* Mutant of ApplyAdjustment: the haircut is added.
ApplyAdjustmentUp(intrinsic_value, conservative_adjustment) ==
    RMul(intrinsic_value, RAdd(One, conservative_adjustment))

\* if params['conservative_adjustment'] > 0: intrinsic_value *= (1 - ...)
ApplyAdjustment(intrinsic_value, conservative_adjustment) ==
    IF RLt(Zero, conservative_adjustment)
    THEN RMul(intrinsic_value, RSub(One, conservative_adjustment))
    ELSE intrinsic_value

\* years_used = min(5, len([val for val in historical_values if val > 0]))
YearsUsed(historical_values) ==
    Min(5, Len(SelectSeq(historical_values, LAMBDA v : RLt(Zero, v))))

\* What run_full_dcf did: kind is "value", "none" (it returned None) or
\* "raised" (ZeroDivisionError).
Outcome(kind, dcf, values, growth, years_used, before, intrinsic, shares) ==
    [kind |-> kind, dcf |-> dcf, historical_values |-> values,
     historical_fcf_growth |-> growth, historical_years_used |-> years_used,
     before_adjustment |-> before, intrinsic_value_per_share |-> intrinsic,
     shares_outstanding |-> shares]

NoOutcome(kind, shares) ==
    Outcome(kind, NoDcf(kind), << >>, Zero, 0, Zero, Zero, shares)

\* DCFCalculator.run_full_dcf
run_full_dcf(financial_data, params) ==
    IF financial_data.cash_flows = << >> \/ financial_data.balance_sheets = << >>
    THEN NoOutcome("none", Zero)
    ELSE
    LET latest_bs == financial_data.balance_sheets[1]
        cash == Rat(latest_bs.cashAndCashEquivalents, 1)
        debt == Rat(latest_bs.totalDebt, 1)
        shares == CurrentShares(financial_data)
        historical_values == HistoricalValues(financial_data, params, shares)
        historical_growth == calculate_historical_fcf_growth(historical_values, 5)
        years_used == YearsUsed(historical_values)
        simple == calculate_dcf_simple(historical_values, params)
        is_per_share == params.dcf_input_type \in {"eps_cont_ops", "fcf"}
        intrinsic_value ==
            IF is_per_share
            THEN RSub(RAdd(simple.enterprise_value, PerShare(cash, shares)),
                      PerShare(debt, shares))
            ELSE calculate_intrinsic_value_per_share(simple.enterprise_value,
                                                     cash, debt, shares)
    IN  IF simple.kind # "value" THEN NoOutcome(simple.kind, shares)
        ELSE Outcome("value", simple, historical_values, historical_growth,
                     years_used, intrinsic_value,
                     ApplyAdjustment(intrinsic_value,
                                     params.conservative_adjustment),
                     shares)

NotRun == NoOutcome("", Zero)

\* run_full_dcf(financial_data, params=params) is called.
RunFullDcf ==
    /\ pc = "idle"
    /\ dcf_result = NotRun
    /\ dcf_result' = run_full_dcf(dcf_data, dcf_params)
    /\ UNCHANGED <<dcf_data, dcf_params, historical_fcf, fn_call,
                   screenVars, cacheVars, hashVars, storeVars,
                   workerVars, filterVars>>

InitDcf ==
    /\ ScreenIdle
    /\ CacheIdle
    /\ HashIdle
    /\ StoreIdle
    /\ WorkerIdle
    /\ FilterIdle
    /\ dcf_data \in FinancialDataSets
    /\ dcf_params \in RunParams
    /\ dcf_result = NotRun
    /\ historical_fcf = << >>
    /\ fn_call = << >>

NextDcf == RunFullDcf

SpecDcf == InitDcf /\ [][NextDcf]_vars

Valued == dcf_result.kind = "value"

\* The strictly positive values among the most recent 5 of the series.
PositiveInWindow(values) ==
    SelectSeq(Slice(values, 5), LAMBDA v : RLt(Zero, v))

\* C12: with fewer than 2 strictly positive values among the most recent 5
\* of the historical series, a DCF run reports exactly 0.0 historical growth
\* and 0 historical years used.
C12_NoGrowthNoYears ==
    (Valued /\ Len(PositiveInWindow(dcf_result.historical_values)) < 2)
    => /\ dcf_result.historical_fcf_growth = Zero
       /\ dcf_result.historical_years_used = 0

LatestSheet == dcf_data.balance_sheets[1]

\* C14: for per-share enterprise value E, total cash C, total debt D and
\* shares S > 0, the intrinsic value per share before the margin of safety
\* is E + C/S - D/S.
C14_CashAndDebtPerShare ==
    (Valued /\ RLt(Zero, dcf_result.shares_outstanding))
    => LET E == dcf_result.dcf.enterprise_value
           C == Rat(LatestSheet.cashAndCashEquivalents, 1)
           D == Rat(LatestSheet.totalDebt, 1)
           S == dcf_result.shares_outstanding
       IN  dcf_result.before_adjustment =
               RSub(RAdd(E, RDiv(C, S)), RDiv(D, S))

\* A run has valued a company with 4 shares (from market cap / price), cash
\* 10 and debt 4: the intrinsic value is E + 10/4 - 4/4.
C14_Witness ==
    /\ Valued
    /\ dcf_result.shares_outstanding = Rat(4, 1)
    /\ dcf_data.current_price > 0
    /\ LatestSheet.cashAndCashEquivalents = 10
    /\ LatestSheet.totalDebt = 4
    /\ dcf_result.before_adjustment =
          RAdd(dcf_result.dcf.enterprise_value, Rat(3, 2))

WithAdjustment(adj) == [dcf_params EXCEPT !.conservative_adjustment = adj]

\* C15: for the same data and otherwise identical params, whenever the
\* intrinsic value computed with conservative_adjustment = 0 is positive, the
\* one computed with conservative_adjustment = 0.2 is that value times
\* (1 - 0.2), and strictly smaller.
C15_AdjustmentLowersValue ==
    (Valued /\ dcf_params.conservative_adjustment = Rat(1, 5))
    => LET base == run_full_dcf(dcf_data, WithAdjustment(Zero))
       IN  (base.kind = "value" /\ RLt(Zero, base.intrinsic_value_per_share))
           => /\ dcf_result.intrinsic_value_per_share =
                    RMul(base.intrinsic_value_per_share, Rat(4, 5))
              /\ RLt(dcf_result.intrinsic_value_per_share,
                     base.intrinsic_value_per_share)

\* A run with conservative_adjustment = 0.2 has given a positive intrinsic
\* value, smaller than the value before the adjustment.
C15_Witness ==
    /\ Valued
    /\ dcf_params.conservative_adjustment = Rat(1, 5)
    /\ RLt(Zero, dcf_result.intrinsic_value_per_share)
    /\ RLt(dcf_result.intrinsic_value_per_share, dcf_result.before_adjustment)

Ran == dcf_result # NotRun

\* Params that are not malformed: at least one projected year, and at least
\* one year to average when normalization is on.
WellFormed(params) ==
    /\ params.projection_years >= 1
    /\ params.normalize_starting_value => params.normalization_years >= 1

\* No cash-flow period or no balance-sheet period at all.
MandatoryAbsent ==
    dcf_data.cash_flows = << >> \/ dcf_data.balance_sheets = << >>

\* No fallback gives a share count: not the key metrics, not the balance
\* sheet, not market cap / price.
SharesUndetermined ==
    /\ dcf_data.balance_sheets # << >>
    /\ CurrentShares(dcf_data) = Zero

\* C16: run_full_dcf never raises, and it returns None exactly when there is
\* no cash-flow period or no balance-sheet period, or when the share count
\* cannot be determined by any fallback; in every other case, in both input
\* modes, it returns a valuation.
C16_AbsentOnlyWithoutSharesOrPeriods ==
    (Ran /\ WellFormed(dcf_params))
    => /\ dcf_result.kind # "raised"
       /\ dcf_result.kind = "none" <=> (MandatoryAbsent \/ SharesUndetermined)

\* C17: a run given malformed params (a negative projection_years, or
\* normalization_years = 0 with normalization on) ends in a rejection of its
\* own, which is neither an arithmetic error nor the absent result of missing
\* data.
C17_MalformedParamsRejected ==
    (Ran /\ ~WellFormed(dcf_params))
    => /\ dcf_result.kind \notin {"raised", "none", "value"}
       /\ dcf_result.kind = "rejected"

\* The number of most recent values the base of the projection is made of.
BaseWindow(historical, params) ==
    IF params.normalize_starting_value /\ Len(historical) >= 2
    THEN Min(params.normalization_years, Len(historical))
    ELSE 1

\* The base of the projection: the average of the base window.
BaseValue(historical, params) ==
    LET w == BaseWindow(historical, params)
    IN  RDiv(RSum(Slice(historical, w)), Rat(w, 1))

\* The data of the run with the amount of the oldest period replaced by v.
WithOldest(v) ==
    [dcf_data EXCEPT
        !.cash_flows = [@ EXCEPT ![Len(@)].freeCashFlow = v],
        !.income_statements = [@ EXCEPT ![Len(@)].eps_cont_ops = v]]

\* The data that differ from the data of the run only in a historical value
\* older than the base window: as many historical values, the same ones in the
\* base window.
OlderVariants ==
    LET shares == CurrentShares(dcf_data)
        mine == dcf_result.historical_values
        w == BaseWindow(mine, dcf_params)
    IN  { other \in { WithOldest(v) : v \in RunValues } :
            LET theirs == HistoricalValues(other, dcf_params, shares)
            IN  /\ Len(theirs) = Len(mine)
                /\ Slice(theirs, w) = Slice(mine, w) }

BeforeFetch(entries) ==
    LET at == {k \in DOMAIN entries : entries[k].ev = "fetch"}
    IN  IF at = {} THEN << >>
        ELSE SubSeq(entries, 1, (CHOOSE k \in at : TRUE) - 1)

\* get_financial_metrics asks the roic provider for the statements of the
\* ticker and the provider never responds: the iteration stays in
\* requests.get.
ProviderHangs ==
    /\ pc = "loop"
    /\ i <= Len(stocks)
    /\ ~MaxReached(max_stocks, matched_count)
    /\ data_source = "roic"
    /\ \E info \in EnrichOutcomes :
         LET r == ProcessStock(stocks[i], info,
                               Response(FALSE, Statements(<< >>, << >>)))
             before == BeforeFetch(r.events)
         IN  /\ before # << >>
             /\ events' = events \o before
    /\ pc' = "blocked"
    /\ UNCHANGED <<data_source, filters, exclude_tickers, max_stocks, universe,
                   universe_source, provider_failed, stocks, pre_filtered,
                   need_enrichment, need_financial, i, matched_count, yielded,
                   final_message>>
    /\ UNCHANGED <<cacheVars, hashVars, dcfVars, storeVars,
                   workerVars, filterVars>>

NextLive ==
    \/ Next
    \/ ProviderHangs

\* The generator runs whenever it can run, and the consumer keeps consuming
\* or stops.
SpecLive == Init /\ [][NextLive]_vars /\ WF_vars(NextLive)

\* C20: every screening run eventually terminates, with its closing progress
\* callback or closed by its consumer, even when a provider call for some
\* ticker never responds.
C20_RunTerminates == <>(pc \in {"done", "cancelled"})

(***************************************************************************)
(* Further properties of a screening run (checked under Spec).             *)
(***************************************************************************)
\* A filter that requires multi-year financial history is active: positive
\* FCF last year, a positive-FCF-year count or the revenue-growth-year count.
NeedsHistory(f) ==
    \/ f.positive_fcf_last_year \notin {"Any", ""}
    \/ f.positive_fcf_years_3 > 0
    \/ f.positive_fcf_years_5 > 0
    \/ f.positive_fcf_years_10 > 0
    \/ f.revenue_growth_years_5 > 0

\* C21: get_financial_metrics is called for a ticker only if an active filter
\* requires multi-year financial history; a filter set whose only active
\* expensive filter is min_gross_margin causes no fetch of statements.
C21_FetchOnlyForHistoryFilters ==
    EventsOf("fetch") # {} => NeedsHistory(filters)

\* The record of ticker t in the list the loop runs over, as the universe
\* gave it.
BaseRecord(t) == stocks[CHOOSE k \in DOMAIN stocks : stocks[k].ticker = t]

\* An active filter requires data the record does not carry.
LacksFilteredData(stock, f) ==
    \/ f.min_gross_margin > 0
    \/ f.sector # {} /\ stock.sector = NA
    \/ f.market_cap_universe # {} /\ stock.market_cap_universe = Unknown

\* C22: enrich_stock_info is called for a ticker only if an active filter
\* requires data that the ticker's universe record does not carry: a record
\* with sector and market-cap tier is not enriched when no gross-margin
\* filter is active.
C22_EnrichOnlyForMissingData ==
    \A k \in EventsOf("enrich") :
        LacksFilteredData(BaseRecord(events[k].ticker), filters)

\* C23: passes_basic_filters is skipped for the tickers of a run if and only
\* if the universe came from the provider's server-side filtered query; it is
\* applied to every ticker of the NASDAQ list and of the built-in list.
C23_BasicSkippedIffServerFiltered ==
    \A t \in Evaluated :
        (EventsFor("basic", t) = {}) <=> (universe_source = "roic_filtered")

\* The position of ticker t in the universe list.
UniversePosition(t) == CHOOSE k \in DOMAIN universe : universe[k].ticker = t

\* The tickers of the entries ev of the log, in the order of the log.
TickersOf(ev) ==
    LET entries == SelectSeq(events, LAMBDA e : e.ev = ev)
    IN  [k \in DOMAIN entries |-> entries[k].ticker]

C27_YieldedSatisfyBasicFilters ==
    \A k \in DOMAIN yielded :
        LET stock == yielded[k]
        IN  /\ (filters.sector # {} /\ stock.sector # NA)
                  => stock.sector \in filters.sector
            /\ (filters.exchange # {} /\ stock.exchange # NA)
                  => stock.exchange \in filters.exchange
            /\ (filters.market_cap_universe # {}
                    /\ stock.market_cap_universe # Unknown)
                  => stock.market_cap_universe \in filters.market_cap_universe

(***************************************************************************)
(* Further properties of run_full_dcf (checked under SpecDcf).             *)
(***************************************************************************)
FcfMode == dcf_params.dcf_input_type = "fcf"

\* The count of the key metric whose date is the date of cash flow k, 0 if
\* there is none.
SharesByDate(k) ==
    LET found == {m \in DOMAIN dcf_data.key_metrics :
                     dcf_data.key_metrics[m].date = dcf_data.cash_flows[k].date}
    IN  IF found = {} THEN 0
        ELSE dcf_data.key_metrics[CHOOSE m \in found : TRUE].numberOfShares

\* The count the balance sheet at position k carries, 0 if there is none.
SharesBySheet(k) ==
    IF k <= Len(dcf_data.balance_sheets)
    THEN dcf_data.balance_sheets[k].bs_sh_out ELSE 0

\* The count of a period: matched by date, else the most recent known count.
SharesDatedOrCurrent(k) ==
    IF SharesByDate(k) > 0 THEN Rat(SharesByDate(k), 1)
    ELSE dcf_result.shares_outstanding

\* The count of a period: matched by date, else the one of the balance sheet
\* at the same position, else the most recent known count.
SharesDatedSheetOrCurrent(k) ==
    IF SharesByDate(k) > 0 THEN Rat(SharesByDate(k), 1)
    ELSE IF SharesBySheet(k) > 0 THEN Rat(SharesBySheet(k), 1)
    ELSE dcf_result.shares_outstanding

\* FCF / count over the periods with a non-zero FCF and a positive count,
\* newest first.
PerShareSeries(Count(_)) ==
    LET kept == {k \in DOMAIN dcf_data.cash_flows :
                    /\ k <= 10
                    /\ dcf_data.cash_flows[k].freeCashFlow # 0
                    /\ RLt(Zero, Count(k))}
        nth(j) == CHOOSE k \in kept : Cardinality({m \in kept : m < k}) = j - 1
    IN  [j \in 1..Cardinality(kept) |->
            RDiv(Rat(dcf_data.cash_flows[nth(j)].freeCashFlow, 1), Count(nth(j)))]

MaxHistory == 6

\* Amounts of a period: a loss and a profit.
LongValues == {-4, 8}

\* Statements of up to MaxHistory periods of a company with 2 shares.
LongDataSets ==
    { FinancialData(series, <<BalanceSheet(10, 4, 2, 0)>>, << >>, 0, 0) :
        series \in IntSeriesOver(LongValues, MaxHistory) }

\* Well-formed params, in both input modes.
LongParams ==
    { Params(<<Rat(1, 4), Zero>>, 1, Zero, Zero, input, nz[1], nz[2]) :
        input \in {"fcf", "eps_cont_ops"}, nz \in {<<FALSE, 1>>, <<TRUE, 2>>} }

InitDcfLong ==
    /\ ScreenIdle
    /\ CacheIdle
    /\ HashIdle
    /\ StoreIdle
    /\ WorkerIdle
    /\ FilterIdle
    /\ dcf_data \in LongDataSets
    /\ dcf_params \in LongParams
    /\ dcf_result = NotRun
    /\ historical_fcf = << >>
    /\ fn_call = << >>

SpecDcfLong == InitDcfLong /\ [][NextDcf]_vars

\* C25: the historical_years_used of a valuation is the number of values
\* that contributed to the reported historical growth rate: the count of the
\* strictly positive values among the most recent 5 of the series, when that
\* count is at least 2.
C25_YearsUsedAreContributors ==
    (Valued /\ Len(PositiveInWindow(dcf_result.historical_values)) >= 2)
    => dcf_result.historical_years_used =
          Len(PositiveInWindow(dcf_result.historical_values))

(***************************************************************************)
(* The analysis store: save_analysis and get_analysis on the               *)
(* analysis_history table, called by several sessions at once.  A result   *)
(* is the number of the save_analysis call that carries it.                *)
(***************************************************************************)
\* Largest number of save_analysis calls.
MaxStoreSaves == 3

\* The sessions that save: the app and the batch worker.
Savers == {"app", "worker"}

StoreTickers == {"AAPL", "MSFT"}

AnalysisRow(ticker, result) == [ticker |-> ticker, result_json |-> result]

\* .select('result_json').eq('ticker', ticker) / WHERE ticker = ?
RowsOf(table, ticker) == SelectSeq(table, LAMBDA row : row.ticker = ticker)

\* .delete().eq('ticker', ticker)
DeleteTicker(table, ticker) == SelectSeq(table, LAMBDA row : row.ticker # ticker)

\* INSERT OR REPLACE under UNIQUE(ticker)
InsertOrReplace(table, row) == Append(DeleteTicker(table, row.ticker), row)

\* get_analysis(ticker): the result of the first row found, 0 for None.
get_analysis(ticker) ==
    LET rows == RowsOf(analysis_history, ticker)
    IN  IF rows = << >> THEN 0 ELSE rows[1].result_json

\* save_analysis(result) is called by session s.  On SQLite the statement
\* and its commit are one transaction, which succeeds or raises; on Supabase
\* the call goes on to its delete request.
save_analysis(s) ==
    /\ pc = "idle"
    /\ s \in DOMAIN save_pc
    /\ save_pc[s] = "idle"
    /\ store_saves < MaxStoreSaves
    /\ store_saves' = store_saves + 1
    /\ \E ticker \in StoreTickers :
         LET row == AnalysisRow(ticker, store_saves + 1)
         IN  /\ save_arg' = [save_arg EXCEPT ![s] = row]
             /\ IF use_supabase
                THEN /\ save_pc' = [save_pc EXCEPT ![s] = "deleting"]
                     /\ UNCHANGED <<analysis_history, completed>>
                ELSE /\ \E ok \in BOOLEAN :
                          IF ok
                          THEN /\ analysis_history' =
                                     InsertOrReplace(analysis_history, row)
                               /\ completed' = completed \cup {row}
                          ELSE UNCHANGED <<analysis_history, completed>>
                     /\ UNCHANGED save_pc
    /\ UNCHANGED <<unique_ticker, screenVars, cacheVars, hashVars, dcfVars,
                   workerVars, filterVars>>

\* _supabase_save_analysis: the delete request; its failure is passed over.
SupabaseDelete(s) ==
    /\ pc = "idle"
    /\ s \in DOMAIN save_pc
    /\ save_pc[s] = "deleting"
    /\ \E ok \in BOOLEAN :
         analysis_history' =
            IF ok THEN DeleteTicker(analysis_history, save_arg[s].ticker)
            ELSE analysis_history
    /\ save_pc' = [save_pc EXCEPT ![s] = "inserting"]
    /\ UNCHANGED <<unique_ticker, save_arg, completed, store_saves, screenVars,
                   cacheVars, hashVars, dcfVars, workerVars, filterVars>>

\* _supabase_save_analysis: the insert request; a failure, or a row refused
\* by the table, is noted in _last_db_error and the call returns.
SupabaseInsert(s) ==
    /\ pc = "idle"
    /\ s \in DOMAIN save_pc
    /\ save_pc[s] = "inserting"
    /\ \E ok \in BOOLEAN :
         LET row == save_arg[s]
             refused == unique_ticker
                           /\ RowsOf(analysis_history, row.ticker) # << >>
         IN  IF ok /\ ~refused
             THEN /\ analysis_history' = Append(analysis_history, row)
                  /\ completed' = completed \cup {row}
             ELSE UNCHANGED <<analysis_history, completed>>
    /\ save_pc' = [save_pc EXCEPT ![s] = "idle"]
    /\ UNCHANGED <<unique_ticker, save_arg, store_saves, screenVars, cacheVars,
                   hashVars, dcfVars, workerVars, filterVars>>

\* The SQLite table declares UNIQUE(ticker); the declaration of the Supabase
\* table is not part of the repository, so both are tried.
InitStore ==
    /\ ScreenIdle
    /\ HashIdle
    /\ DcfIdle
    /\ WorkerIdle
    /\ FilterIdle
    /\ use_supabase \in BOOLEAN
    /\ checked_tickers = << >>
    /\ clock = 0
    /\ run_filters = << >>
    /\ run_pc = << >>
    /\ pending = << >>
    /\ called = {}
    /\ written = {}
    /\ last_save = << >>
    /\ saves = 0
    /\ analysis_history = << >>
    /\ unique_ticker \in (IF use_supabase THEN BOOLEAN ELSE {TRUE})
    /\ save_pc = [s \in Savers |-> "idle"]
    /\ save_arg = [s \in Savers |-> AnalysisRow("", 0)]
    /\ completed = {}
    /\ store_saves = 0

NextStore ==
    \/ \E s \in Savers : save_analysis(s)
    \/ \E s \in Savers : SupabaseDelete(s)
    \/ \E s \in Savers : SupabaseInsert(s)

SpecStore == InitStore /\ [][NextStore]_vars

NoSaveInProgress == \A s \in Savers : save_pc[s] = "idle"

\* C28: after any sequence and interleaving of save_analysis calls the store
\* holds at most one analysis per ticker, get_analysis returns the content of
\* one of the completed saves, and a save that fails part-way leaves the
\* stored analysis of the ticker in place, on SQLite and on Supabase.
C28_OneAnalysisPerTicker ==
    \A t \in StoreTickers :
        /\ Len(RowsOf(analysis_history, t)) <= 1
        /\ get_analysis(t) # 0 => AnalysisRow(t, get_analysis(t)) \in completed
        /\ (NoSaveInProgress /\ \E row \in completed : row.ticker = t)
              => get_analysis(t) # 0

(***************************************************************************)
(* Server-side filtering (get_filtered_tickers with the filter lists) and  *)
(* client-side filtering (passes_basic_filters on the records of the       *)
(* unfiltered universe) of one payload of the /tickers endpoint.           *)
(***************************************************************************)
FilterPayloads == {RoicFull, RoicPartial}

SectorLists == {{}, {"Technology"}, {"Energy"}, {"Technology", "Financial Services"}}

ExchangeLists == {{}, {"NASDAQ"}, {"NYSE"}}

TierLists == {{}, {"Large Cap"}, {"Mid Cap"}}

FilterCheck(data, f, done, server, client) ==
    [data |-> data, filters |-> f, done |-> done, server |-> server,
     client |-> client]

TickersIn(list) == {list[k].ticker : k \in DOMAIN list}

\* The universe without filters: every record of the payload.
UnfilteredUniverse(data) == get_filtered_tickers(data, {}, {}, {})

\* The tickers of the unfiltered universe that pass passes_basic_filters.
ClientFiltered(data, f) ==
    TickersIn(SelectSeq(UnfilteredUniverse(data),
                        LAMBDA stock : passes_basic_filters(stock, f)))

\* The tickers get_filtered_tickers returns for the filter lists.
ServerFiltered(data, f) ==
    TickersIn(get_filtered_tickers(data, f.sector, f.exchange,
                                   f.market_cap_universe))

\* Both sides filter the payload.
CompareFilters ==
    /\ pc = "idle"
    /\ filter_check # << >>
    /\ ~filter_check.done
    /\ filter_check' =
          FilterCheck(filter_check.data, filter_check.filters, TRUE,
                      ServerFiltered(filter_check.data, filter_check.filters),
                      ClientFiltered(filter_check.data, filter_check.filters))
    /\ UNCHANGED <<screenVars, cacheVars, hashVars, dcfVars, storeVars,
                   workerVars>>

InitFilter ==
    /\ ScreenIdle
    /\ CacheIdle
    /\ HashIdle
    /\ DcfIdle
    /\ StoreIdle
    /\ WorkerIdle
    /\ filter_check \in
          { FilterCheck(data, Filters(s, e, t, <<"Any", 0, 0, 0, 0, 0>>),
                        FALSE, {}, {}) :
              data \in FilterPayloads, s \in SectorLists, e \in ExchangeLists,
              t \in TierLists }

NextFilter == CompareFilters

SpecFilter == InitFilter /\ [][NextFilter]_vars

\* The record of ticker t in the unfiltered universe of the payload.
UnfilteredRecord(t) ==
    LET all == UnfilteredUniverse(filter_check.data)
    IN  all[CHOOSE k \in DOMAIN all : all[k].ticker = t]

\* Every attribute the filter lists ask for is known for the stock.
FilteredAttributesKnown(stock, f) ==
    /\ f.sector # {} => stock.sector # NA
    /\ f.exchange # {} => stock.exchange # NA
    /\ f.market_cap_universe # {} => stock.market_cap_universe # Unknown

\* C29 (as claimed): server-side and client-side filtering select the same
\* tickers, for every universe and every filter lists, tickers whose sector,
\* exchange or market-cap tier is unknown included.
C29_ServerEqualsClient ==
    filter_check.done => filter_check.server = filter_check.client

\* C29 (amended): server-side filtering selects the tickers that client-side
\* filtering selects and whose filtered attributes are all known: the two
\* agree on every ticker whose sector, exchange and tier are known, and a
\* ticker with an unknown attribute under an active filter list is dropped by
\* the server side and passed by the client side when its known attributes
\* pass.
C29_ServerIsClientOnKnown ==
    filter_check.done =>
        filter_check.server =
            { t \in filter_check.client :
                FilteredAttributesKnown(UnfilteredRecord(t), filter_check.filters) }

\* A payload of which the server side keeps one ticker and the client side
\* that ticker and another, whose sector is unknown.
C29_Witness ==
    /\ filter_check.done
    /\ filter_check.server # {}
    /\ \E t \in filter_check.client \ filter_check.server :
          UnfilteredRecord(t).sector = NA

(***************************************************************************)
(* The batch worker: run_worker and process_job over the batch_jobs table. *)
(***************************************************************************)
\* Number of rows of the batch_jobs table.
MaxJobs == 2

JobIds == 1..MaxJobs

\* The universe a job's screening run goes over.
JobTickers == <<"AAPL", "MSFT">>

\* The filter dicts of the jobs.
JobFilters ==
    { <<<<"sector", "[Technology]">>>>,
      <<<<"exchange", "[NASDAQ]">>, <<"min_gross_margin", "40">>>> }

\* A row of the batch_jobs table.
BatchJob(f, status) ==
    [filters |-> f, status |-> status, processed_tickers |-> 0]

\* db_storage.update_batch_job(job_id, **fields): the row takes the fields.
update_batch_job(jobs, job_id, fields) ==
    [jobs EXCEPT ![job_id] =
        [k \in DOMAIN jobs[job_id] |->
            IF k \in DOMAIN fields THEN fields[k] ELSE jobs[job_id][k]]]

\* db_storage.get_pending_batch_jobs(): the ids of the pending rows.
get_pending_batch_jobs(jobs) ==
    SelectSeq([k \in 1..MaxJobs |-> k], LAMBDA j : jobs[j].status = "pending")

\* What has been observed of a job: the statuses its row has had, what
\* process_job returned, the tickers the checked callback fired for, those
\* for which save_checked_ticker has returned, those whose upsert succeeded.
JobTrace(status) ==
    [log |-> <<status>>, returned |-> "none", fired |-> {}, saved |-> {},
     stored |-> {}]

Logged(trace, job_id, status) ==
    [trace EXCEPT ![job_id].log = Append(@, status)]

Returned(trace, job_id, value) ==
    [trace EXCEPT ![job_id].returned = value]

\* on_checked: processed += 1; db_storage.save_checked_ticker(...), whose
\* upsert succeeds (ok) or fails and is printed.
on_checked(trace, job_id, ticker, ok) ==
    [trace EXCEPT ![job_id].fired = @ \cup {ticker},
                  ![job_id].saved = @ \cup {ticker},
                  ![job_id].stored = IF ok THEN @ \cup {ticker} ELSE @]

cacheRest == <<clock, run_filters, run_pc, pending, called, written, last_save, saves>>

\* run_worker up to its loop: without Supabase the worker returns at once.
run_worker ==
    /\ worker_pc = "start"
    /\ worker_pc' = IF use_supabase THEN "polling" ELSE "exited"
    /\ UNCHANGED <<worker_once, batch_jobs, job_queue, job_cur, job_i,
                   job_local, job_trace, use_supabase, checked_tickers,
                   cacheRest, screenVars, hashVars, dcfVars, storeVars,
                   filterVars>>

\* One round of the loop: jobs = get_pending_batch_jobs(); with no job the
\* worker exits when once is set and sleeps otherwise.
PollJobs ==
    /\ worker_pc = "polling"
    /\ LET jobs == get_pending_batch_jobs(batch_jobs)
       IN  /\ jobs # << >> \/ worker_once
           /\ job_queue' = jobs
           /\ worker_pc' = IF jobs = << >> THEN "exited" ELSE "dispatch"
    /\ UNCHANGED <<worker_once, batch_jobs, job_cur, job_i, job_local,
                   job_trace, use_supabase, checked_tickers, cacheRest,
                   screenVars, hashVars, dcfVars, storeVars, filterVars>>

\* process_job up to the screening run: the job is marked running, then the
\* recently checked tickers of its filters are read (the query succeeds or
\* gives the empty set).
StartJob ==
    /\ worker_pc = "dispatch"
    /\ job_queue # << >>
    /\ LET job_id == Head(job_queue)
       IN  /\ job_cur' = job_id
           /\ batch_jobs' =
                 update_batch_job(batch_jobs, job_id, [status |-> "running"])
           /\ job_trace' = Logged(job_trace, job_id, "running")
           /\ \E ok \in BOOLEAN :
                 job_local' =
                    [recently_checked |->
                        get_recently_checked_tickers(
                            batch_jobs[job_id].filters, 7, ok),
                     processed |-> 0]
    /\ job_queue' = Tail(job_queue)
    /\ job_i' = 1
    /\ worker_pc' = "screening"
    /\ UNCHANGED <<worker_once, use_supabase, checked_tickers, cacheRest,
                   screenVars, hashVars, dcfVars, storeVars, filterVars>>

\* One ticker of the screening run of the job: a recently checked ticker is
\* excluded from the run; for another the checked callback fires when the
\* ticker required a slow check.
JobScreenTicker ==
    /\ worker_pc = "screening"
    /\ job_i <= Len(JobTickers)
    /\ LET ticker == JobTickers[job_i]
           h == _get_filter_hash(batch_jobs[job_cur].filters, 0)
       IN  IF ticker \in job_local.recently_checked
           THEN UNCHANGED <<job_local, job_trace, checked_tickers>>
           ELSE \E required_slow_check \in BOOLEAN, passed \in BOOLEAN,
                   ok \in BOOLEAN :
                  IF required_slow_check
                  THEN /\ job_local' =
                             [job_local EXCEPT !.processed = @ + 1]
                       /\ job_trace' = on_checked(job_trace, job_cur, ticker, ok)
                       /\ checked_tickers' =
                             IF ok
                             THEN Upsert(checked_tickers, <<ticker, h>>,
                                         Row(passed, clock))
                             ELSE checked_tickers
                  ELSE UNCHANGED <<job_local, job_trace, checked_tickers>>
    /\ job_i' = job_i + 1
    /\ UNCHANGED <<worker_pc, worker_once, batch_jobs, job_queue, job_cur,
                   use_supabase, cacheRest, screenVars, hashVars, dcfVars,
                   storeVars, filterVars>>

\* Mutant of ScreeningRaises: the handler returns without marking the job.
ScreeningRaisesUnmarked ==
    /\ worker_pc = "screening"
    /\ job_trace' = Returned(job_trace, job_cur, "False")
    /\ worker_pc' = "dispatch"
    /\ UNCHANGED <<worker_once, batch_jobs, job_queue, job_cur, job_i,
                   job_local, use_supabase, checked_tickers, cacheRest,
                   screenVars, hashVars, dcfVars, storeVars, filterVars>>

\* An exception inside the try block (the screener, a provider, the store):
\* the job is marked failed and process_job returns False.
ScreeningRaises ==
    /\ worker_pc = "screening"
    /\ batch_jobs' = update_batch_job(batch_jobs, job_cur, [status |-> "failed"])
    /\ job_trace' =
          Returned(Logged(job_trace, job_cur, "failed"), job_cur, "False")
    /\ worker_pc' = "dispatch"
    /\ UNCHANGED <<worker_once, job_queue, job_cur, job_i, job_local,
                   use_supabase, checked_tickers, cacheRest, screenVars,
                   hashVars, dcfVars, storeVars, filterVars>>

\* The screening run is over: the last progress callback writes its count,
\* the job is marked completed and process_job returns True.
JobCompletes ==
    /\ worker_pc = "screening"
    /\ job_i > Len(JobTickers)
    /\ batch_jobs' =
          update_batch_job(
              update_batch_job(batch_jobs, job_cur, [processed_tickers |-> 100]),
              job_cur,
              [status |-> "completed",
               processed_tickers |-> job_local.processed])
    /\ job_trace' =
          Returned(Logged(job_trace, job_cur, "completed"), job_cur, "True")
    /\ worker_pc' = "dispatch"
    /\ UNCHANGED <<worker_once, job_queue, job_cur, job_i, job_local,
                   use_supabase, checked_tickers, cacheRest, screenVars,
                   hashVars, dcfVars, storeVars, filterVars>>

\* The for loop over jobs is over: the worker exits when once is set and
\* polls again otherwise.
JobsDone ==
    /\ worker_pc = "dispatch"
    /\ job_queue = << >>
    /\ worker_pc' = IF worker_once THEN "exited" ELSE "polling"
    /\ UNCHANGED <<worker_once, batch_jobs, job_queue, job_cur, job_i,
                   job_local, job_trace, use_supabase, checked_tickers,
                   cacheRest, screenVars, hashVars, dcfVars, storeVars,
                   filterVars>>

InitWorker ==
    /\ ScreenIdle
    /\ HashIdle
    /\ DcfIdle
    /\ StoreIdle
    /\ FilterIdle
    /\ use_supabase \in BOOLEAN
    /\ checked_tickers = [key \in CacheKeys |-> << >>]
    /\ clock = 0
    /\ run_filters = << >>
    /\ run_pc = << >>
    /\ pending = << >>
    /\ called = {}
    /\ written = {}
    /\ last_save = << >>
    /\ saves = 0
    /\ worker_pc = "start"
    /\ worker_once \in BOOLEAN
    /\ batch_jobs \in
          [JobIds -> {BatchJob(f, status) :
                         f \in JobFilters, status \in {"pending", "completed"}}]
    /\ job_trace = [j \in JobIds |-> JobTrace(batch_jobs[j].status)]
    /\ job_queue = << >>
    /\ job_cur = 0
    /\ job_i = 0
    /\ job_local = [recently_checked |-> {}, processed |-> 0]

NextWorker ==
    \/ run_worker
    \/ PollJobs
    \/ StartJob
    \/ JobScreenTicker
    \/ ScreeningRaises
    \/ JobCompletes
    \/ JobsDone

SpecWorker == InitWorker /\ [][NextWorker]_vars

\* The jobs the worker has picked up.
PickedUp ==
    {j \in JobIds : job_trace[j].log[1] = "pending" /\ Len(job_trace[j].log) > 1}

\* pending -> running -> (completed | failed), and the status agrees with
\* what process_job returned.
Lifecycle(j) ==
    /\ job_trace[j].log \in
          { <<"pending", "running">>, <<"pending", "running", "completed">>,
            <<"pending", "running", "failed">> }
    /\ batch_jobs[j].status = job_trace[j].log[Len(job_trace[j].log)]
    /\ job_trace[j].returned = "True" => batch_jobs[j].status = "completed"
    /\ job_trace[j].returned = "False" => batch_jobs[j].status = "failed"
    /\ job_trace[j].returned # "none" => batch_jobs[j].status # "running"

HasRecord(j, ticker) ==
    checked_tickers[<<ticker, _get_filter_hash(batch_jobs[j].filters, 0)>>] # << >>

=============================================================================
